---- MODULE Spec2Model ----
(***************************************************************************)
(* Verification model of the music-streaming analytics pipeline:          *)
(*   FunnelAnalyzer  (src/funnel_analysis.py)                              *)
(*   CohortAnalyzer  (src/cohort_analysis.py)                              *)
(*   FeatureEngineer (src/feature_engineering.py)                          *)
(*   ABTestFramework (src/ab_framework.py)                                 *)
(*   SkipPredictor   (src/skip_predictor.py)                               *)
(*   SessionForecaster (src/session_forecaster.py)                         *)
(*   DataLoader      (src/data_loader.py)                                  *)
(*                                                                         *)
(* Tables are sequences of records (one record per row).  Timestamps are  *)
(* whole hours since 2024-01-01 00:00 (a Monday).  A float that the code  *)
(* computes as a quotient of two integers is kept as the exact fraction   *)
(* <<numerator, denominator>> in lowest terms, so "exactly 1.0" and       *)
(* comparisons against 0.20 are decided exactly.                          *)
(***************************************************************************)
EXTENDS Integers, Sequences, FiniteSets, TLC

VARIABLES
    users,              \* users table handed to the analyzers
    sessions,           \* sessions table handed to the analyzers
    tracks,             \* tracks table handed to the feature engineer
    playlist_tracks,    \* playlist_tracks table: playlist_id -> number of rows
    funnel_stages,      \* FunnelAnalyzer.funnel_stages
    funnel_data,        \* FunnelAnalyzer.funnel_data (Optional DataFrame)
    funnel_metrics,     \* value returned by the last analyze_* call
    recommendations,    \* value returned by the last get_recommendations call
    last_funnel_call,   \* history: the last analyze_* call and its stage counts
    geometric_draws,    \* outcome of np.random.geometric after seed(42), per row
    choice_draws,       \* outcome of np.random.choice (index drawn), per row
    period,             \* CohortAnalyzer.period
    retention_matrix,   \* CohortAnalyzer.retention_matrix (Optional DataFrame)
    retention_summary,  \* outcome of the last get_retention_summary call
    last_retention_call,\* history: the last calculate_retention call
    features,           \* table returned by the last create_all_features call
    feature_names,      \* FeatureEngineer.feature_names
    feature_outcome,    \* how the last create_all_features call ended
    churn_analysis,     \* outcome of the last identify_churn_risk call
    timestamp_dtype,    \* dtype of the caller's sessions['timestamp'] column
    signup_date_dtype,  \* dtype of the caller's users['signup_date'] column
    significance_level, \* ABTestFramework.significance_level
    experiments,        \* ABTestFramework.experiments (names registered)
    assignments,        \* ABTestFramework.assignments: name -> assignment rows
    results,            \* ABTestFramework.results: name -> ExperimentResults
    ab_return,          \* outcome of the last ABTestFramework call
    ab_args,            \* arguments the caller passes to the sample-size
                        \* calculator or to the random assignment
    skip_predictor,     \* the caller's SkipPredictor instance
    session_forecaster, \* the caller's SessionForecaster instance
    saved_models,       \* the pickle files written by save(), per class
    train_calls,        \* history: number of train() calls made so far
    ml_return,          \* outcome of the last SkipPredictor/SessionForecaster call
    loader_df,          \* the table the caller hands to DataLoader.validate_data
    loader_return       \* outcome of the last validate_data call

vars == <<users, sessions, tracks, playlist_tracks, funnel_stages, funnel_data,
          funnel_metrics, recommendations, last_funnel_call,
          geometric_draws, choice_draws, period,
          retention_matrix, retention_summary, last_retention_call,
          features, feature_names, feature_outcome, churn_analysis,
          timestamp_dtype, signup_date_dtype,
          significance_level, experiments, assignments, results, ab_return,
          ab_args,
          skip_predictor, session_forecaster, saved_models, train_calls, ml_return,
          loader_df, loader_return>>

inputVars == <<users, sessions, tracks, playlist_tracks,
               geometric_draws, choice_draws>>
funnelVars == <<funnel_stages, funnel_data, funnel_metrics, recommendations,
                last_funnel_call>>
cohortVars == <<period, retention_matrix, retention_summary, last_retention_call,
                churn_analysis>>
featureVars == <<features, feature_names, feature_outcome>>
callerVars == <<timestamp_dtype, signup_date_dtype>>
abVars == <<significance_level, experiments, assignments, results, ab_return,
            ab_args>>
modelVars == <<skip_predictor, session_forecaster, saved_models, train_calls, ml_return>>
loaderVars == <<loader_df, loader_return>>

----------------------------------------------------------------------------
(* Bounds of the model *)

MaxSessions == 3        \* rows of a sessions table
MaxPlaylistLen == 5     \* rows of playlist_tracks per playlist
MaxPeriods == 2         \* largest `periods` argument of calculate_retention
MaxFeatureSessions == 4 \* rows of a sessions table of the feature engineer
MaxDay == 4             \* last calendar day of a feature engineer session
MaxGroupSize == 2       \* users handed to create_experiment per group
MaxAssignUsers == 5     \* length of the user_ids list of assign_users_randomly
MaxHourSessions == 3    \* rows of a sessions table with times of day
MaxActivationSessions == 4 \* rows of a sessions table of the activation funnel
MaxRecommendSessions == 4 \* rows of a sessions table read before get_recommendations

UserIds == {"u1", "u2"}
PlaylistIds == {"p1", "p2"}
Contexts == {"playlist", "album"}
Periods == {"monthly", "weekly", "quarterly"}

----------------------------------------------------------------------------
(* Arithmetic helpers *)

Min(a, b) == IF a <= b THEN a ELSE b
Max(a, b) == IF a >= b THEN a ELSE b
Abs(a) == IF a < 0 THEN -a ELSE a

RECURSIVE GCD(_, _)
GCD(a, b) == IF b = 0 THEN a ELSE GCD(b, a % b)

\* the exact value n/d (d > 0) in lowest terms
Frac(n, d) ==
    LET g == GCD(Abs(n), d) IN <<n \div g, d \div g>>

FracGT(x, y) == x[1] * y[2] > y[1] * x[2]
FracGE(x, y) == x[1] * y[2] >= y[1] * x[2]

Zero == <<0, 1>>
One == <<1, 1>>

RECURSIVE SumSeq(_)
SumSeq(s) == IF s = <<>> THEN 0 ELSE Head(s) + SumSeq(Tail(s))

RECURSIVE SetToSeq(_)
\* the elements of a finite set of integers or strings in some fixed order
SetToSeq(S) ==
    IF S = {} THEN <<>>
    ELSE LET x == CHOOSE y \in S : TRUE IN <<x>> \o SetToSeq(S \ {x})

Range(s) == {s[i] : i \in 1..Len(s)}

\* number of rows of table t that satisfy P
CountRows(t, P(_)) == Cardinality({i \in 1..Len(t) : P(t[i])})

----------------------------------------------------------------------------
(* Calendar: timestamps are hours since 2024-01-01 00:00, a Monday *)

DayOf(ts) == ts \div 24          \* floor, also for negatives
\* pandas Timedelta.days: whole days of a difference, rounded down
TimedeltaDays(delta) == delta \div 24
\* pd.Timedelta(days=n) in hours
Days(n) == n * 24

IsLeap(y) == (y % 4 = 0 /\ y % 100 # 0) \/ y % 400 = 0
DaysInYear(y) == IF IsLeap(y) THEN 366 ELSE 365

RECURSIVE Jan1(_)
\* day number of 1 January of year y >= 2024
Jan1(y) == IF y <= 2024 THEN 0 ELSE Jan1(y - 1) + DaysInYear(y - 1)

RECURSIVE YearFrom(_, _)
YearFrom(y, d) == IF d < Jan1(y + 1) THEN y ELSE YearFrom(y + 1, d)
\* calendar year of day number d >= 0
YearOf(d) == YearFrom(2024, d)

DaysInMonth(y, m) ==
    IF m = 2 THEN (IF IsLeap(y) THEN 29 ELSE 28)
    ELSE IF m \in {4, 6, 9, 11} THEN 30 ELSE 31

RECURSIVE MonthFrom(_, _, _)
MonthFrom(y, m, rest) ==
    IF rest < DaysInMonth(y, m) THEN m ELSE MonthFrom(y, m + 1, rest - DaysInMonth(y, m))
\* calendar month (1..12) of day number d >= 0
MonthOf(d) == MonthFrom(YearOf(d), 1, d - Jan1(YearOf(d)))

\* Series.dt.isocalendar().week: the ISO-8601 week number (1..53) of the day;
\* the ISO week belongs to the year of its Thursday
IsoWeek(ts) ==
    LET d == DayOf(ts)
        thursday == d - (d % 7) + 3
    IN  ((thursday - Jan1(YearOf(thursday))) \div 7) + 1

----------------------------------------------------------------------------
(* FunnelAnalyzer *)

FunnelStage(name, users_, conversion, drop_off) ==
    [name |-> name, users |-> users_,
     conversion_rate |-> conversion, drop_off_rate |-> drop_off]

\* BuildFunnelStages with the guard of the conversion rate off by one
BuildFunnelStages_GuardOffByOne(stages, total) ==
    [i \in 1..Len(stages) |->
        LET users_ == stages[i].users
            prev_users == IF i = 1 THEN total ELSE stages[i - 1].users
            conversion == IF total > 1 THEN Frac(users_, total) ELSE Zero
            drop_off == IF prev_users > 0
                        THEN Frac(prev_users - users_, prev_users) ELSE Zero
        IN  FunnelStage(stages[i].name, users_, conversion, drop_off)]

\* the loop "for name, users in stages" of both analyze_* methods;
\* stages is a sequence of [name, users], total is total_starts / total_users
BuildFunnelStages(stages, total) ==
    [i \in 1..Len(stages) |->
        LET users_ == stages[i].users
            prev_users == IF i = 1 THEN total ELSE stages[i - 1].users
            conversion == IF total > 0 THEN Frac(users_, total) ELSE Zero
            drop_off == IF prev_users > 0
                        THEN Frac(prev_users - users_, prev_users) ELSE Zero
        IN  FunnelStage(stages[i].name, users_, conversion, drop_off)]

\* funnel_data = pd.DataFrame([...] for s in self.funnel_stages)
FunnelDataFrame(stages) ==
    [none |-> FALSE,
     rows |-> [i \in 1..Len(stages) |->
                 [stage |-> stages[i].name, users |-> stages[i].users,
                  conversion_rate |-> stages[i].conversion_rate,
                  drop_off_rate |-> stages[i].drop_off_rate]]]

NoDataFrame == [none |-> TRUE, rows |-> <<>>]

RECURSIVE BiggestDropFrom_LastWins(_, _, _, _)
\* BiggestDropFrom with ">=" for ">": the last of several equal drops wins
BiggestDropFrom_LastWins(stages, i, max_drop, max_stage) ==
    IF i > Len(stages) THEN max_stage
    ELSE IF FracGE(stages[i].drop_off_rate, max_drop)
         THEN BiggestDropFrom_LastWins(stages, i + 1, stages[i].drop_off_rate,
                                       stages[i].name)
         ELSE BiggestDropFrom_LastWins(stages, i + 1, max_drop, max_stage)

RECURSIVE BiggestDropFrom(_, _, _, _)
\* the scan of _find_biggest_drop_off from position i on
BiggestDropFrom(stages, i, max_drop, max_stage) ==
    IF i > Len(stages) THEN max_stage
    ELSE IF FracGT(stages[i].drop_off_rate, max_drop)
         THEN BiggestDropFrom(stages, i + 1, stages[i].drop_off_rate, stages[i].name)
         ELSE BiggestDropFrom(stages, i + 1, max_drop, max_stage)

_find_biggest_drop_off(stages) ==
    IF stages = <<>> THEN "unknown"
    ELSE BiggestDropFrom(stages, 2, Zero, "unknown")

\* --- analyze_playlist_completion ------------------------------------------

DefaultPlaylistLength == 20

PlaylistSessions(s) == SelectSeq(s, LAMBDA r : r.context = "playlist")

\* playlist_tracks.groupby('playlist_id').size(), as the sequence of its values
PlaylistLengths(pt) ==
    LET ids == {p \in DOMAIN pt : pt[p] > 0}
        ordered == SetToSeq(ids)
    IN  [i \in 1..Len(ordered) |-> pt[ordered[i]]]

\* np.clip(x, lo, hi) = minimum(maximum(x, lo), hi)
Clip(x, lo, hi) == Min(Max(x, lo), hi)

\* _simulate_playlist_progress: one row per playlist session
_simulate_playlist_progress(ps, playlist_lengths) ==
    LET n_sessions == Len(ps)
        \* int(avg_playlist_length)
        int_avg == IF Len(playlist_lengths) > 0
                   THEN SumSeq(playlist_lengths) \div Len(playlist_lengths)
                   ELSE DefaultPlaylistLength
        values == IF Len(playlist_lengths) > 0
                  THEN playlist_lengths ELSE <<DefaultPlaylistLength>>
    IN  [i \in 1..n_sessions |->
            LET tc == Clip(geometric_draws[i], 1, int_avg)
                len == values[(choice_draws[i] % Len(values)) + 1]
            IN  [user_id |-> ps[i].user_id,
                 tracks_completed |-> tc,
                 playlist_length |-> len,
                 \* (tracks_completed / playlist_length).clip(0, 1)
                 completion_ratio |-> Frac(Min(tc, len), len)]]

\* the list "stages" of analyze_playlist_completion
PlaylistStages(progress) ==
    LET tcGE(k) == CountRows(progress, LAMBDA r : r.tracks_completed >= k)
        ratioGE(x) == CountRows(progress, LAMBDA r : FracGE(r.completion_ratio, x))
    IN  << [name |-> "started", users |-> Len(progress)],
           [name |-> "track_1_complete", users |-> tcGE(1)],
           [name |-> "track_3_complete", users |-> tcGE(3)],
           [name |-> "track_5_complete", users |-> tcGE(5)],
           [name |-> "50_percent_complete", users |-> ratioGE(<<1, 2>>)],
           [name |-> "75_percent_complete", users |-> ratioGE(<<3, 4>>)],
           [name |-> "100_percent_complete", users |-> ratioGE(One)] >>

\* x / total if total > 0 else 0
RateOf(x, total) == IF total > 0 THEN Frac(x, total) ELSE Zero

PlaylistMetrics(stages, total_starts, built) ==
    [kind |-> "playlist",
     total_playlist_starts |-> total_starts,
     overall_completion_rate |-> RateOf(stages[Len(stages)].users, total_starts),
     track_1_completion |-> RateOf(stages[2].users, total_starts),
     track_3_completion |-> RateOf(stages[3].users, total_starts),
     track_5_completion |-> RateOf(stages[4].users, total_starts),
     drop_off_track_1_3 |-> RateOf(stages[2].users - stages[3].users, stages[2].users),
     drop_off_track_3_5 |-> RateOf(stages[3].users - stages[4].users, stages[3].users),
     biggest_drop_off_stage |-> _find_biggest_drop_off(built)]

analyze_playlist_completion ==
    LET ps == PlaylistSessions(sessions) IN
    IF Len(ps) = 0
    THEN \* "No playlist sessions found": return {}
         /\ funnel_metrics' = [kind |-> "empty"]
         /\ last_funnel_call' = [op |-> "analyze_playlist_completion", stages |-> <<>>]
         /\ UNCHANGED <<funnel_stages, funnel_data, recommendations>>
         /\ UNCHANGED <<inputVars, callerVars, cohortVars, featureVars, abVars, modelVars, loaderVars>>
    ELSE LET progress == _simulate_playlist_progress(ps, PlaylistLengths(playlist_tracks))
             total_starts == Len(progress)
             stages == PlaylistStages(progress)
             built == BuildFunnelStages(stages, total_starts)
         IN  /\ funnel_stages' = built
             /\ funnel_data' = FunnelDataFrame(built)
             /\ funnel_metrics' = PlaylistMetrics(stages, total_starts, built)
             /\ last_funnel_call' = [op |-> "analyze_playlist_completion",
                                     stages |-> stages]
             /\ UNCHANGED recommendations
             /\ UNCHANGED <<inputVars, callerVars, cohortVars, featureVars, abVars, modelVars, loaderVars>>

\* --- analyze_user_activation ----------------------------------------------

SessionUserIds(s) == {s[i].user_id : i \in 1..Len(s)}

TimestampsOf(s, u) == {s[i].timestamp : i \in {j \in 1..Len(s) : s[j].user_id = u}}

SetMin(S) == CHOOSE x \in S : \A y \in S : x <= y
SetMax(S) == CHOOSE x \in S : \A y \in S : x >= y

\* sessions.groupby('user_id')['timestamp'].min()
FirstSession(s, u) == SetMin(TimestampsOf(s, u))

\* len(x[x['timestamp'] <= x['timestamp'].min() + pd.Timedelta(days=d)])
SessionCountWithin(s, u, d) ==
    CountRows(s, LAMBDA r : r.user_id = u /\ r.timestamp <= FirstSession(s, u) + Days(d))

\* sessions.groupby('user_id')['week'].nunique()
WeeksActive(s, u) == Cardinality({IsoWeek(t) : t \in TimestampsOf(s, u)})

\* (users_first_session['days_to_first'] <= 1).sum(); a user without a
\* session has days_to_first NaN, and NaN <= 1 is False
ActivatedDay1(us, s) ==
    Cardinality({r \in us :
        /\ r.user_id \in SessionUserIds(s)
        /\ TimedeltaDays(FirstSession(s, r.user_id) - r.signup_date) <= 1})

\* the list "stages" of analyze_user_activation
ActivationStages(us, s) ==
    LET active == SessionUserIds(s)
    IN  << [name |-> "signed_up", users |-> Cardinality(us)],
           [name |-> "first_session", users |-> Cardinality(active)],
           [name |-> "activated_day_1", users |-> ActivatedDay1(us, s)],
           [name |-> "active_week_1",
            users |-> Cardinality({u \in active : SessionCountWithin(s, u, 7) >= 2})],
           [name |-> "retained_week_2",
            users |-> Cardinality({u \in active : SessionCountWithin(s, u, 14) >= 3})],
           [name |-> "weekly_active",
            users |-> Cardinality({u \in active : WeeksActive(s, u) >= 4})] >>

ActivationMetrics(stages, total_users) ==
    [kind |-> "activation",
     total_signups |-> total_users,
     first_session_rate |-> RateOf(stages[2].users, total_users),
     day_1_activation_rate |-> RateOf(stages[3].users, total_users),
     week_1_retention_rate |-> RateOf(stages[4].users, total_users),
     week_2_retention_rate |-> RateOf(stages[5].users, total_users),
     weekly_active_rate |-> RateOf(stages[6].users, total_users),
     signup_to_active_conversion |-> RateOf(stages[6].users, total_users)]

\* called on a sessions table with at least one row (the group-wise apply of
\* lines 206-215 is defined on non-empty groups)
analyze_user_activation ==
    /\ Len(sessions) > 0
    /\ LET total_users == Cardinality(users)
           stages == ActivationStages(users, sessions)
           built == BuildFunnelStages(stages, total_users)
       IN  /\ funnel_stages' = built
           /\ funnel_data' = FunnelDataFrame(built)
           /\ funnel_metrics' = ActivationMetrics(stages, total_users)
           /\ last_funnel_call' = [op |-> "analyze_user_activation", stages |-> stages]
    /\ UNCHANGED recommendations
    /\ UNCHANGED <<inputVars, callerVars, cohortVars, featureVars, abVars, modelVars, loaderVars>>

\* --- get_recommendations --------------------------------------------------

Message(kind, stage, rate) == [kind |-> kind, stage |-> stage, rate |-> rate]

\* 'track_3' in s.name / 'track_5' in s.name, over the stage names in use
ContainsTrack3(name) == name = "track_3_complete"
ContainsTrack5(name) == name = "track_5_complete"

\* HighDropOff reading the loss since the first stage (1 - conversion_rate)
HighDropOff_FromStart(stage) ==
    FracGT(<<stage.conversion_rate[2] - stage.conversion_rate[1],
             stage.conversion_rate[2]>>, <<1, 5>>)

\* drop_off_rate > 0.20
HighDropOff(stage) == FracGT(stage.drop_off_rate, <<1, 5>>)

RECURSIVE StageFlags(_, _)
\* the loop over self.funnel_stages[1:], from position i on
StageFlags(stages, i) ==
    IF i > Len(stages) THEN <<>>
    ELSE (IF HighDropOff(stages[i])
          THEN <<Message("high_drop_off", stages[i].name, stages[i].drop_off_rate)>>
          ELSE <<>>) \o StageFlags(stages, i + 1)

\* next((s for s in self.funnel_stages if pred(s.name)), None) as a set:
\* empty for None, else the first match
FirstStage(stages, pred(_)) ==
    LET hits == {i \in 1..Len(stages) : pred(stages[i].name)}
    IN  IF hits = {} THEN {} ELSE {stages[SetMin(hits)]}

\* the block "Specific recommendations for playlist completion"; the stage
\* counts are numpy integers, so 0/0 is nan and nan > 0.15 is False
PlaylistSpecific(stages) ==
    LET t3 == FirstStage(stages, ContainsTrack3)
        t5 == FirstStage(stages, ContainsTrack5)
    IN  IF t3 # {} /\ t5 # {}
        THEN LET a == (CHOOSE x \in t3 : TRUE).users
                 b == (CHOOSE x \in t5 : TRUE).users
             IN  IF a > 0 /\ FracGT(Frac(a - b, a), <<3, 20>>)
                 THEN <<Message("tracks_3_5", "", Frac(a - b, a))>>
                 ELSE <<>>
        ELSE <<>>

\* Recommendations without the closing "if not recommendations" fallback
Recommendations_NoFallback(data, stages) ==
    IF data.none \/ Len(data.rows) = 0
    THEN <<Message("run_analysis_first", "", Zero)>>
    ELSE StageFlags(stages, 2) \o PlaylistSpecific(stages)

Recommendations(data, stages) ==
    IF data.none \/ Len(data.rows) = 0
    THEN <<Message("run_analysis_first", "", Zero)>>
    ELSE LET found == StageFlags(stages, 2) \o PlaylistSpecific(stages)
         IN  IF found = <<>> THEN <<Message("healthy", "", Zero)>> ELSE found

get_recommendations ==
    /\ recommendations' = Recommendations(funnel_data, funnel_stages)
    /\ UNCHANGED <<funnel_stages, funnel_data, funnel_metrics, last_funnel_call>>
    /\ UNCHANGED <<inputVars, callerVars, cohortVars, featureVars, abVars, modelVars, loaderVars>>

----------------------------------------------------------------------------
(* CohortAnalyzer *)

\* Series.dt.to_period(freq) for the analyzer's period: 'M', 'W' (weeks
\* Monday..Sunday) or 'Q'; a Period is its frequency and its ordinal
ToPeriod(per, ts) ==
    LET d == DayOf(ts)
        months == (YearOf(d) - 2024) * 12 + (MonthOf(d) - 1)
    IN  IF per = "monthly" THEN [freq |-> "M", ordinal |-> months]
        ELSE IF per = "weekly" THEN [freq |-> "W", ordinal |-> d \div 7]
        ELSE [freq |-> "Q", ordinal |-> months \div 3]

\* str(Period): "2024-03", "2024-01-01/2024-01-07" (first and last day of the
\* week, kept as day numbers) or "2024Q1"
PeriodStr(p) ==
    IF p.freq = "M"
    THEN [form |-> "YYYY-MM", a |-> 2024 + (p.ordinal \div 12), b |-> (p.ordinal % 12) + 1]
    ELSE IF p.freq = "W"
    THEN [form |-> "start/end", a |-> p.ordinal * 7, b |-> p.ordinal * 7 + 6]
    ELSE [form |-> "YYYYQq", a |-> 2024 + (p.ordinal \div 4), b |-> (p.ordinal % 4) + 1]

\* pd.Period(string): the frequency is inferred from the form of the string
ParsePeriod(str) ==
    IF str.form = "YYYY-MM"
    THEN [freq |-> "M", ordinal |-> (str.a - 2024) * 12 + (str.b - 1)]
    ELSE IF str.form = "start/end"
    THEN [freq |-> "W", ordinal |-> str.b \div 7]
    ELSE [freq |-> "Q", ordinal |-> (str.a - 2024) * 4 + (str.b - 1)]

\* (activity_period - cohort).n after the round trip through str
PeriodNumber(activity_period, cohort) ==
    ParsePeriod(PeriodStr(activity_period)).ordinal - ParsePeriod(PeriodStr(cohort)).ordinal

\* users['cohort'], as the set of cohorts that occur
Cohorts(per, us) == {ToPeriod(per, r.signup_date) : r \in us}

\* sessions.merge(users[['user_id', 'cohort']], how='left'): the rows whose
\* cohort is not NaN, as (user_id, cohort, activity_period)
SessionsWithCohort(per, us, s) ==
    UNION {{[user_id |-> s[i].user_id,
             cohort |-> ToPeriod(per, r.signup_date),
             activity_period |-> ToPeriod(per, s[i].timestamp)] :
               r \in {x \in us : x.user_id = s[i].user_id}} : i \in 1..Len(s)}

\* groupby(['cohort', 'activity_period'])['user_id'].count(): the sessions
\* of the group, not its distinct users
ActiveUsers_CountsSessions(per, us, s, c, ap) ==
    CountRows(s, LAMBDA row :
        \E r \in us : /\ r.user_id = row.user_id
                      /\ ToPeriod(per, r.signup_date) = c
                      /\ ToPeriod(per, row.timestamp) = ap)

\* groupby(['cohort', 'activity_period'])['user_id'].nunique()
ActiveUsers(per, us, s, c, ap) ==
    Cardinality({x.user_id : x \in {y \in SessionsWithCohort(per, us, s) :
                                       y.cohort = c /\ y.activity_period = ap}})

\* cohort_activity: one row per (cohort, activity_period) with a session
CohortActivity(per, us, s) ==
    {[cohort |-> k[1], activity_period |-> k[2],
      active_users |-> ActiveUsers(per, us, s, k[1], k[2]),
      period_number |-> PeriodNumber(k[2], k[1])] :
        k \in {<<x.cohort, x.activity_period>> : x \in SessionsWithCohort(per, us, s)}}

\* users.groupby('cohort')['user_id'].nunique()
CohortSize(per, us, c) ==
    Cardinality({r.user_id : r \in {x \in us : ToPeriod(per, x.signup_date) = c}})

RECURSIVE SortedSeq(_)
\* the integers of S in increasing order
SortedSeq(S) == IF S = {} THEN <<>> ELSE <<SetMin(S)>> \o SortedSeq(S \ {SetMin(S)})

\* retention_matrix.columns[:periods]: the first `periods` columns by position
LimitColumns(columns, periods) == SubSeq(columns, 1, Min(periods, Len(columns)))

NoMatrix == [none |-> TRUE, index |-> {}, columns |-> <<>>, cells |-> {}]

\* the matrix calculate_retention builds: pivot, column limit, percentages;
\* a cell is 100 * active_users / cohort_size, missing cells (NaN) are absent
RetentionMatrix(per, us, s, periods) ==
    LET activity == CohortActivity(per, us, s)
        columns == LimitColumns(SortedSeq({a.period_number : a \in activity}), periods)
    IN  [none |-> FALSE,
         index |-> {a.cohort : a \in activity},
         columns |-> columns,
         cells |-> {[cohort |-> a.cohort, period_number |-> a.period_number,
                     value |-> Frac(100 * a.active_users, CohortSize(per, us, a.cohort))] :
                       a \in {x \in activity : x.period_number \in Range(columns)}}]

calculate_retention(periods) ==
    /\ retention_matrix' = RetentionMatrix(period, users, sessions, periods)
    /\ last_retention_call' = [op |-> "calculate_retention", periods |-> periods]
    /\ UNCHANGED <<period, retention_summary, churn_analysis>>
    /\ UNCHANGED <<inputVars, callerVars, funnelVars, featureVars, abVars, modelVars, loaderVars>>

\* --- get_retention_summary ------------------------------------------------

FracAdd(x, y) == Frac(x[1] * y[2] + y[1] * x[2], x[2] * y[2])

RECURSIVE FracSum(_)
FracSum(S) ==
    IF S = {} THEN Zero
    ELSE LET c == CHOOSE x \in S : TRUE IN FracAdd(c.value, FracSum(S \ {c}))

Column(m, col) == {c \in m.cells : c.period_number = col}

\* self.retention_matrix[col].mean() if col in columns else 0 (NaN skipped)
ColumnMean(m, col) ==
    IF col \in Range(m.columns)
    THEN LET cs == Column(m, col)
             total == FracSum(cs)
         IN  Frac(total[1], total[2] * Cardinality(cs))
    ELSE Zero

\* str(self.retention_matrix[1].idxmax()) / idxmin(): the first cohort, in
\* index order, with the extreme value; None without a column 1
ExtremeCohort(m, better(_, _)) ==
    IF 1 \in Range(m.columns)
    THEN LET cs == Column(m, 1)
             best == {c \in cs : \A o \in cs : ~better(o.value, c.value)}
             first == CHOOSE c \in best : \A o \in best : c.cohort.ordinal <= o.cohort.ordinal
         IN  [none |-> FALSE, label |-> PeriodStr(first.cohort)]
    ELSE [none |-> TRUE, label |-> PeriodStr([freq |-> "M", ordinal |-> 0])]

\* get_retention_summary with "if not self.retention_matrix.columns.size"
\* the None test widened: a matrix without columns raises too
RetentionSummary_EmptyRaises(m) ==
    IF m.none \/ m.columns = <<>>
    THEN [kind |-> "ValueError"]
    ELSE [kind |-> "summary", num_cohorts |-> Cardinality(m.index)]

RetentionSummary(m) ==
    IF m.none
    THEN [kind |-> "ValueError"]
    ELSE [kind |-> "summary",
          avg_initial_retention |-> ColumnMean(m, 0),
          avg_period_1_retention |-> ColumnMean(m, 1),
          avg_period_3_retention |-> ColumnMean(m, 3),
          avg_period_6_retention |-> ColumnMean(m, 6),
          best_cohort |-> ExtremeCohort(m, FracGT),
          worst_cohort |-> ExtremeCohort(m, LAMBDA x, y : FracGT(y, x)),
          num_cohorts |-> Cardinality(m.index)]

get_retention_summary ==
    /\ retention_summary' = RetentionSummary(retention_matrix)
    /\ UNCHANGED <<period, retention_matrix, last_retention_call, churn_analysis>>
    /\ UNCHANGED <<inputVars, callerVars, funnelVars, featureVars, abVars, modelVars, loaderVars>>

NoSessionDaysInactive == 999

\* last_activity['days_inactive'] >= days_inactive
ChurnRisk_Strict(days, days_inactive) == days > days_inactive
ChurnRisk(days, days_inactive) == days >= days_inactive

\* the table identify_churn_risk returns: users left-merged with the last
\* activity per user; the missing cells of users without a session are filled
\* with True and 999
ChurnAnalysis(us, s, days_inactive) ==
    LET current_date == SetMax({s[i].timestamp : i \in 1..Len(s)})
    IN  {IF r.user_id \in SessionUserIds(s)
         THEN LET last_activity == SetMax(TimestampsOf(s, r.user_id))
                  days == TimedeltaDays(current_date - last_activity)
              IN  [user_id |-> r.user_id, has_session |-> TRUE,
                   days_inactive |-> days,
                   churn_risk |-> ChurnRisk(days, days_inactive)]
         ELSE [user_id |-> r.user_id, has_session |-> FALSE,
               days_inactive |-> NoSessionDaysInactive,
               churn_risk |-> TRUE] : r \in us}

NoChurnAnalysis == [none |-> TRUE, days_inactive |-> 0, rows |-> {}]

identify_churn_risk(days_inactive) ==
    /\ churn_analysis' = [none |-> FALSE, days_inactive |-> days_inactive,
                          rows |-> ChurnAnalysis(users, sessions, days_inactive)]
    /\ UNCHANGED <<period, retention_matrix, retention_summary, last_retention_call>>
    /\ UNCHANGED <<inputVars, callerVars, funnelVars, featureVars, abVars, modelVars, loaderVars>>

----------------------------------------------------------------------------
(* FeatureEngineer *)

\* sorted(row['date']): the distinct active dates of user u, increasing
ActiveDates(s, u) == SortedSeq({DayOf(t) : t \in TimestampsOf(s, u)})

RECURSIVE StreaksLoop_NoFinalAppend(_, _, _, _)
\* the streak loop without the "streaks.append(current_streak)" after it
StreaksLoop_NoFinalAppend(dates, i, current_streak, streaks) ==
    IF i > Len(dates) THEN streaks
    ELSE IF dates[i] - dates[i - 1] = 1
         THEN StreaksLoop_NoFinalAppend(dates, i + 1, current_streak + 1, streaks)
         ELSE StreaksLoop_NoFinalAppend(dates, i + 1, 1, Append(streaks, current_streak))

RECURSIVE StreaksLoop_RestartsAtZero(_, _, _, _)
\* the streak loop with "current_streak = 0" after a gap
StreaksLoop_RestartsAtZero(dates, i, current_streak, streaks) ==
    IF i > Len(dates) THEN Append(streaks, current_streak)
    ELSE IF dates[i] - dates[i - 1] = 1
         THEN StreaksLoop_RestartsAtZero(dates, i + 1, current_streak + 1, streaks)
         ELSE StreaksLoop_RestartsAtZero(dates, i + 1, 0, Append(streaks, current_streak))

RECURSIVE StreaksLoop(_, _, _, _)
\* "for i in range(1, len(dates))" and the append that follows it
StreaksLoop(dates, i, current_streak, streaks) ==
    IF i > Len(dates) THEN Append(streaks, current_streak)
    ELSE IF dates[i] - dates[i - 1] = 1
         THEN StreaksLoop(dates, i + 1, current_streak + 1, streaks)
         ELSE StreaksLoop(dates, i + 1, 1, Append(streaks, current_streak))

SeqMax(q) == SetMax(Range(q))

\* the row _create_listening_streak_features appends for a user with dates
StreakRow(dates) ==
    LET streaks == StreaksLoop(dates, 2, 1, <<>>)
        date_range == (dates[Len(dates)] - dates[1]) + 1
        some == streaks # <<>>
    IN  [current_streak |-> IF some THEN streaks[Len(streaks)] ELSE 0,
         max_streak |-> IF some THEN SeqMax(streaks) ELSE 0,
         avg_streak |-> IF some THEN Frac(SumSeq(streaks), Len(streaks)) ELSE Zero,
         streak_count |-> Len(streaks),
         active_days |-> Len(dates),
         active_days_ratio |-> IF date_range > 0 THEN Frac(Len(dates), date_range) ELSE Zero]

\* user_ids with a row in the streak features: sessions.groupby('user_id');
\* the playlist, session, temporal, audio and engagement features group the
\* sessions the same way
StreakKeys(s) == SessionUserIds(s)

\* user_ids with a row in the genre features: groupby(['user_id', 'genre'])
\* drops the sessions whose track has no row in tracks (genre NaN)
GenreKeys(s, tr) ==
    {s[i].user_id : i \in {j \in 1..Len(s) : \E t \in tr : t.track_id = s[j].track_id}}

\* the outer merges of the seven feature groups on user_id
FeatureKeys(s, tr) == StreakKeys(s) \cup GenreKeys(s, tr)

\* genre_count of user u: np.sum(counts > 0) over the genres of the user's
\* sessions whose track has a row in tracks
GenreCount(s, tr, u) ==
    Cardinality({t.genre : t \in {x \in tr : \E i \in 1..Len(s) :
                                     s[i].user_id = u /\ s[i].track_id = x.track_id}})

Genres(tr) == {t.genre : t \in tr}

\* user_genre_counts.loc[user_id]: the number of sessions of user u per genre,
\* over the sessions whose track has a row in tracks
GenreCounts(s, tr, u) ==
    [g \in Genres(tr) |->
        Cardinality({i \in 1..Len(s) :
            /\ s[i].user_id = u
            /\ \E t \in tr : t.track_id = s[i].track_id /\ t.genre = g})]

\* counts.sum() over the genres of S
RECURSIVE SumCounts(_, _)
SumCounts(counts, S) ==
    IF S = {} THEN 0
    ELSE LET g == CHOOSE x \in S : TRUE IN counts[g] + SumCounts(counts, S \ {g})

\* the genre features of a user with at least one genre row; the entropy
\* -sum(p * log2(p)) is kept as its sign: 0 for one genre, positive for more
GenreRow(s, tr, u) ==
    LET counts == GenreCounts(s, tr, u)
        played == {g \in Genres(tr) : counts[g] > 0}
        total == SumCounts(counts, played)
        squares == SumCounts([g \in played |-> counts[g] * counts[g]], played)
    IN  [nan |-> FALSE,
         entropy_positive |-> Cardinality(played) > 1,
         top_genre_ratio |-> Frac(SetMax({counts[g] : g \in played}), total),
         genre_concentration |-> Frac(squares, total * total)]

\* the genre cells of a user without a row in the genre features
GenreNaN ==
    [nan |-> TRUE, entropy_positive |-> FALSE, top_genre_ratio |-> Zero,
     genre_concentration |-> Zero]

HourOf(ts) == ts % 24

TimeBuckets == {"night", "morning", "afternoon", "evening"}

\* pd.cut(hour, bins=[-1, 6, 12, 18, 24]): the bins are closed on the right,
\* (-1, 6], (6, 12], (12, 18], (18, 24]
TimeBucket(hour) ==
    IF hour <= 6 THEN "night"
    ELSE IF hour <= 12 THEN "morning"
    ELSE IF hour <= 18 THEN "afternoon"
    ELSE "evening"

RowsOf(s, u) == {i \in 1..Len(s) : s[i].user_id = u}

\* time_buckets.div(user_counts, axis=0): the *_ratio columns of user u
TemporalRow(s, u) ==
    [b \in TimeBuckets |->
        Frac(Cardinality({i \in RowsOf(s, u) : TimeBucket(HourOf(s[i].timestamp)) = b}),
             Cardinality(RowsOf(s, u)))]

\* listening_span_days and avg_daily_sessions of user u
EngagementRow(s, u) ==
    LET first_listen == SetMin(TimestampsOf(s, u))
        last_listen == SetMax(TimestampsOf(s, u))
        total_events == Cardinality(RowsOf(s, u))
        listening_span_days == TimedeltaDays(last_listen - first_listen) + 1
        daily == Frac(total_events, listening_span_days)
    IN  [total_events |-> total_events,
         listening_span_days |-> listening_span_days,
         avg_daily_sessions |-> IF FracGT(daily, <<100, 1>>) THEN <<100, 1>>
                                ELSE IF daily[1] < 0 THEN Zero ELSE daily]

\* a numeric cell of a DataFrame: NaN or a number
NaN == [nan |-> TRUE, v |-> 0]
Num(x) == [nan |-> FALSE, v |-> x]

\* the rows after the outer merges: a user without a genre row has NaN in the
\* genre columns
MergeFeatureGroups(s, tr) ==
    {[user_id |-> u,
      streak |-> StreakRow(ActiveDates(s, u)),
      genre_count |-> IF u \in GenreKeys(s, tr) THEN Num(GenreCount(s, tr, u)) ELSE NaN,
      genre |-> IF u \in GenreKeys(s, tr) THEN GenreRow(s, tr, u) ELSE GenreNaN,
      temporal |-> TemporalRow(s, u),
      engagement |-> EngagementRow(s, u)] :
        u \in FeatureKeys(s, tr)}

\* the left merge with users[['user_id', 'tier', 'country', 'age_group']]:
\* the rows of the merged features are kept, users without a feature row
\* are not added
MergeDemographics(rows, us) ==
    {[user_id |-> r.user_id, streak |-> r.streak, genre_count |-> r.genre_count,
      genre |-> r.genre, temporal |-> r.temporal, engagement |-> r.engagement,
      in_users |-> \E x \in us : x.user_id = r.user_id] : r \in rows}

\* all_features[numeric_cols].fillna(0)
FillNumeric(rows) ==
    {[r EXCEPT !.genre_count = IF r.genre_count.nan THEN Num(0) ELSE r.genre_count,
               !.genre = IF r.genre.nan THEN [GenreNaN EXCEPT !.nan = FALSE] ELSE r.genre] :
        r \in rows}

FeatureColumns ==
    <<"user_id", "current_streak", "max_streak", "avg_streak", "streak_count",
      "active_days", "active_days_ratio", "genre_count", "genre_entropy",
      "top_genre_ratio", "genre_concentration", "night_ratio", "morning_ratio",
      "afternoon_ratio", "evening_ratio", "avg_daily_sessions">>

\* The timestamp column of the caller's table is converted in place before
\* anything else.  With no session rows the streak frame, and with no session
\* whose track has a row in tracks the genre frame, is built from an empty list
\* and has no user_id column, so the first merge raises KeyError before
\* anything is assigned.
create_all_features ==
    /\ timestamp_dtype' = "datetime64"
    /\ IF Len(sessions) = 0 \/ GenreKeys(sessions, tracks) = {}
       THEN /\ feature_outcome' = "KeyError"
            /\ UNCHANGED <<features, feature_names>>
       ELSE /\ features' = [none |-> FALSE,
                            rows |-> FillNumeric(MergeDemographics(
                                        MergeFeatureGroups(sessions, tracks), users))]
            /\ feature_names' = FeatureColumns
            /\ feature_outcome' = "returned"
    /\ UNCHANGED <<inputVars, signup_date_dtype, funnelVars, cohortVars, abVars, modelVars, loaderVars>>

----------------------------------------------------------------------------
(* ABTestFramework (src/ab_framework.py) *)

\* arithmetic on exact fractions; a product is reduced crosswise first
FracNeg(x) == <<-x[1], x[2]>>
FracSub(x, y) == Frac(x[1] * y[2] - y[1] * x[2], x[2] * y[2])
FracMul(x, y) ==
    LET g1 == GCD(Abs(x[1]), y[2])
        g2 == GCD(Abs(y[1]), x[2])
        h1 == IF g1 = 0 THEN 1 ELSE g1
        h2 == IF g2 = 0 THEN 1 ELSE g2
    IN  Frac((x[1] \div h1) * (y[1] \div h2), (x[2] \div h2) * (y[2] \div h1))
\* x / y for y # 0
FracDiv(x, y) ==
    IF y[1] > 0 THEN FracMul(x, <<y[2], y[1]>>) ELSE FracMul(x, <<-y[2], -y[1]>>)
FracLE(x, y) == FracGE(y, x)

\* a float of the analysis: NaN or an exact value
FNaN == [nan |-> TRUE, v |-> Zero]
F(x) == [nan |-> FALSE, v |-> x]
\* a - b, a / b (b a non-zero number or NaN) in floating point: NaN propagates
FSub(a, b) == IF a.nan \/ b.nan THEN FNaN ELSE F(FracSub(a.v, b.v))
FDiv(a, b) == IF a.nan \/ b.nan THEN FNaN ELSE F(FracDiv(a.v, b.v))
\* a != 0: true for NaN
FNonZero(a) == a.nan \/ a.v # Zero

\* norm.ppf to two decimals: ppf(0.975) = 1.96, ppf(0.995) = 2.58,
\* ppf(0.80) = 0.84
NormPpfUpper(alpha) == IF alpha = <<1, 20>> THEN <<49, 25>> ELSE <<129, 50>>
NormPpfPower == <<21, 25>>
DefaultPower == <<4, 5>>

\* pd.DataFrame({'user_id': users, 'variant': variant, 'experiment': name})
AssignmentFrame(users_, variant) ==
    [i \in 1..Len(users_) |-> [user_id |-> users_[i], variant |-> variant]]

\* pd.concat([control_df, treatment_df], ignore_index=True)
ConcatFrames_ControlOnly(control_df, treatment_df) == control_df
ConcatFrames(control_df, treatment_df) == control_df \o treatment_df

NoAssignments == [none |-> TRUE, rows |-> <<>>]
NoResults == [none |-> TRUE]

create_experiment(name, control_users, treatment_users) ==
    /\ experiments' = experiments \cup {name}
    /\ assignments' = [assignments EXCEPT ![name] =
           [none |-> FALSE,
            rows |-> ConcatFrames(AssignmentFrame(control_users, "control"),
                                  AssignmentFrame(treatment_users, "treatment"))]]
    /\ ab_return' = [op |-> "create_experiment", name |-> name, outcome |-> "returned",
                     control_users |-> control_users,
                     treatment_users |-> treatment_users]
    /\ UNCHANGED <<significance_level, results, ab_args>>
    /\ UNCHANGED <<inputVars, callerVars, funnelVars, cohortVars, featureVars, modelVars, loaderVars>>

\* metric_data.merge(assignments, left_on=user_column, right_on='user_id')
\* restricted to one variant: the pairs (metric row, assignment row) that match
MergedRows(metric_data, asg, variant) ==
    {pr \in (1..Len(metric_data)) \X (1..Len(asg)) :
        /\ metric_data[pr[1]].user_id = asg[pr[2]].user_id
        /\ asg[pr[2]].variant = variant}

RECURSIVE SumValues(_, _)
SumValues(rows, metric_data) ==
    IF rows = {} THEN 0
    ELSE LET pr == CHOOSE x \in rows : TRUE
         IN  metric_data[pr[1]].value + SumValues(rows \ {pr}, metric_data)

RECURSIVE SumSquares(_, _)
SumSquares(rows, metric_data) ==
    IF rows = {} THEN 0
    ELSE LET pr == CHOOSE x \in rows : TRUE
         IN  metric_data[pr[1]].value * metric_data[pr[1]].value
                 + SumSquares(rows \ {pr}, metric_data)

\* Series.mean(): NaN for an empty group
SeriesMean(rows, metric_data) ==
    IF rows = {} THEN FNaN
    ELSE F(Frac(SumValues(rows, metric_data), Cardinality(rows)))

\* the square of Series.std() (ddof = 1): NaN for fewer than two observations
SeriesVar(rows, metric_data) ==
    LET n == Cardinality(rows)
        sum == SumValues(rows, metric_data)
    IN  IF n < 2 THEN FNaN
        ELSE F(Frac(n * SumSquares(rows, metric_data) - sum * sum, n * (n - 1)))

\* control_std**2/control_n + treatment_std**2/treatment_n
SquaredStandardError(cvar, cn, tvar, tn) ==
    IF cvar.nan \/ tvar.nan THEN FNaN
    ELSE F(FracAdd(FracMul(cvar.v, <<1, cn>>), FracMul(tvar.v, <<1, tn>>)))

\* the p-values stats.ttest_ind(treatment, control, equal_var=False) can
\* return: NaN when a variance is NaN or when 0/0 is the statistic, 0 for an
\* infinite statistic, 1 for a statistic of 0, and otherwise a value strictly
\* between 0 and 1 that the t distribution fixes; every value of PGrid stands
\* for it
PGrid == {<<1, 100>>, <<1, 20>>, <<1, 2>>}
PValues(effect, se2) ==
    IF effect.nan \/ se2.nan THEN {FNaN}
    ELSE IF se2.v = Zero
         THEN IF effect.v = Zero THEN {FNaN} ELSE {F(Zero)}
         ELSE IF effect.v = Zero THEN {F(One)} ELSE {F(x) : x \in PGrid}

\* the number center + sign * z * sqrt(radius_sq), z = norm.ppf(1 - alpha/2)
Bound(center, sign, radius_sq) ==
    IF center.nan \/ radius_sq.nan
    THEN [nan |-> TRUE, center |-> Zero, sign |-> sign, radius_sq |-> Zero]
    ELSE [nan |-> FALSE, center |-> center.v, sign |-> sign, radius_sq |-> radius_sq.v]

\* ci = (absolute_effect - z*pooled_se, absolute_effect + z*pooled_se)
ConfidenceInterval(absolute_effect, se2) ==
    <<Bound(absolute_effect, -1, se2), Bound(absolute_effect, 1, se2)>>

\* ((control_n-1)*control_std**2 + (treatment_n-1)*treatment_std**2)
\*     / (control_n+treatment_n-2), the square of pooled_std
PooledVariance(cvar, cn, tvar, tn) ==
    IF cvar.nan \/ tvar.nan THEN FNaN
    ELSE F(FracMul(FracAdd(FracMul(<<cn - 1, 1>>, cvar.v), FracMul(<<tn - 1, 1>>, tvar.v)),
                   <<1, cn + tn - 2>>))

\* cohens_d = absolute_effect / pooled_std if pooled_std != 0 else 0, kept as
\* num / sqrt(den_sq)
CohensD(absolute_effect, pooled_var) ==
    IF FNonZero(pooled_var)
    THEN IF absolute_effect.nan \/ pooled_var.nan
         THEN [nan |-> TRUE, num |-> Zero, den_sq |-> One]
         ELSE [nan |-> FALSE, num |-> absolute_effect.v, den_sq |-> pooled_var.v]
    ELSE [nan |-> FALSE, num |-> Zero, den_sq |-> One]

\* relative_effect = absolute_effect / control_mean if control_mean != 0 else 0
RelativeEffect(absolute_effect, control_mean) ==
    IF FNonZero(control_mean) THEN FDiv(absolute_effect, control_mean) ELSE F(Zero)

\* p_value < self.significance_level: False for NaN
IsSignificant_OrEqual(p_value, alpha) == ~p_value.nan /\ FracLE(p_value.v, alpha)
IsSignificant(p_value, alpha) == ~p_value.nan /\ FracGT(alpha, p_value.v)

\* the ExperimentResults analyze_results builds from the merged table
ExperimentResults(metric_data, asg, alpha, p_value) ==
    LET control_data == MergedRows(metric_data, asg, "control")
        treatment_data == MergedRows(metric_data, asg, "treatment")
        control_mean == SeriesMean(control_data, metric_data)
        treatment_mean == SeriesMean(treatment_data, metric_data)
        control_var == SeriesVar(control_data, metric_data)
        treatment_var == SeriesVar(treatment_data, metric_data)
        control_n == Cardinality(control_data)
        treatment_n == Cardinality(treatment_data)
        absolute_effect == FSub(treatment_mean, control_mean)
        se2 == SquaredStandardError(control_var, control_n, treatment_var, treatment_n)
    IN  [none |-> FALSE,
         control_mean |-> control_mean, treatment_mean |-> treatment_mean,
         \* the standard deviations are kept as their squares
         control_std_sq |-> control_var, treatment_std_sq |-> treatment_var,
         control_n |-> control_n, treatment_n |-> treatment_n,
         absolute_effect |-> absolute_effect,
         relative_effect |-> RelativeEffect(absolute_effect, control_mean),
         p_value |-> p_value,
         confidence_interval |-> ConfidenceInterval(absolute_effect, se2),
         is_significant |-> IsSignificant(p_value, alpha),
         power |-> DefaultPower,
         effect_size |-> CohensD(absolute_effect,
                                 PooledVariance(control_var, control_n,
                                                treatment_var, treatment_n))]

\* the p-values the t-test can return for the merged table
TTestPValues(metric_data, asg) ==
    LET control_data == MergedRows(metric_data, asg, "control")
        treatment_data == MergedRows(metric_data, asg, "treatment")
    IN  PValues(FSub(SeriesMean(treatment_data, metric_data),
                     SeriesMean(control_data, metric_data)),
                SquaredStandardError(SeriesVar(control_data, metric_data),
                                     Cardinality(control_data),
                                     SeriesVar(treatment_data, metric_data),
                                     Cardinality(treatment_data)))

analyze_results(experiment_name, metric_data) ==
    /\ IF experiment_name \notin experiments
       THEN \* self.experiments[experiment_name] raises
            /\ ab_return' = [op |-> "analyze_results", name |-> experiment_name,
                             outcome |-> "KeyError"]
            /\ UNCHANGED results
       ELSE \E p_value \in TTestPValues(metric_data, assignments[experiment_name].rows) :
            /\ results' = [results EXCEPT ![experiment_name] =
                    ExperimentResults(metric_data, assignments[experiment_name].rows,
                                      significance_level, p_value)]
            /\ ab_return' = [op |-> "analyze_results", name |-> experiment_name,
                             outcome |-> "returned"]
    /\ UNCHANGED <<significance_level, experiments, assignments, ab_args>>
    /\ UNCHANGED <<inputVars, callerVars, funnelVars, cohortVars, featureVars, modelVars, loaderVars>>

\* the fields the report's f-string renders; a number stands for its rendering
Report(c, r) ==
    [name |-> c,
     control_n |-> r.control_n, control_mean |-> r.control_mean,
     treatment_n |-> r.treatment_n, treatment_mean |-> r.treatment_mean,
     absolute_effect |-> r.absolute_effect, relative_effect |-> r.relative_effect,
     ci_label |-> "95% CI", confidence_interval |-> r.confidence_interval,
     p_value |-> r.p_value,
     significant |-> IF r.is_significant THEN "YES" ELSE "NO"]

generate_report(experiment_name) ==
    /\ IF results[experiment_name].none
       THEN \* self.results[experiment_name] raises
            ab_return' = [op |-> "generate_report", name |-> experiment_name,
                          outcome |-> "KeyError"]
       ELSE ab_return' = [op |-> "generate_report", name |-> experiment_name,
                          outcome |-> "returned",
                          report |-> Report(experiment_name, results[experiment_name])]
    /\ UNCHANGED <<significance_level, experiments, assignments, results, ab_args>>
    /\ UNCHANGED <<inputVars, callerVars, funnelVars, cohortVars, featureVars, modelVars, loaderVars>>

FallbackSampleSize == 10000

\* np.ceil(x), int(x) (truncation toward zero) of an exact value
CeilFrac(x) == -((-x[1]) \div x[2])
IntFrac(x) == IF x[1] >= 0 THEN x[1] \div x[2] ELSE -((-x[1]) \div x[2])

\* variance * ((z_alpha + z_beta) ** 2) / (effect ** 2), effect # 0
SampleSizeQuotient(variance, z_sum, effect) ==
    FracDiv(FracMul(variance, FracMul(z_sum, z_sum)), FracMul(effect, effect))

\* the value calculate_sample_size returns (power = 0.80)
SampleSize(baseline_rate, mde, alpha) ==
    LET treatment_rate == FracMul(baseline_rate, FracAdd(One, mde))
        pooled_rate == FracMul(FracAdd(baseline_rate, treatment_rate), <<1, 2>>)
        z_alpha == NormPpfUpper(alpha)
        z_beta == NormPpfPower
        diff == FracSub(treatment_rate, baseline_rate)
        effect == IF diff[1] < 0 THEN FracNeg(diff) ELSE diff
        variance == FracMul(<<2, 1>>, FracMul(pooled_rate, FracSub(One, pooled_rate)))
    IN  IF effect = Zero THEN FallbackSampleSize
        ELSE CeilFrac(SampleSizeQuotient(variance, FracAdd(z_alpha, z_beta), effect))

calculate_sample_size(baseline_rate, mde) ==
    /\ ab_return' = [op |-> "calculate_sample_size", outcome |-> "returned",
                     baseline_rate |-> baseline_rate, mde |-> mde,
                     n |-> SampleSize(baseline_rate, mde, significance_level)]
    /\ UNCHANGED <<significance_level, experiments, assignments, results, ab_args>>
    /\ UNCHANGED <<inputVars, callerVars, funnelVars, cohortVars, featureVars, modelVars, loaderVars>>

\* The double 1 - treatment_ratio is 0.19999999999999996 for the ratio 0.8,
\* and 5 times it is 0.9999999999999998: the product of these lengths and
\* ratios is rounded to just below the exact integer, so int() is one less
\* than the exact floor.  For the other lengths up to 9 and ratios modelled
\* the double product truncates to the exact floor.
ProductRoundsBelow(length, treatment_ratio) ==
    length = 5 /\ treatment_ratio = <<4, 5>>

\* split_idx = int(len(shuffled) * (1 - treatment_ratio))
SplitIndex(length, treatment_ratio) ==
    IntFrac(FracMul(<<length, 1>>, FracSub(One, treatment_ratio)))
        - (IF ProductRoundsBelow(length, treatment_ratio) THEN 1 ELSE 0)

\* shuffled is the outcome of np.random.permutation(user_ids) after
\* np.random.seed(seed): some rearrangement of user_ids, fixed by the seed
assign_users_randomly(user_ids, treatment_ratio, shuffled) ==
    LET split_idx == SplitIndex(Len(shuffled), treatment_ratio)
    IN  /\ ab_return' = [op |-> "assign_users_randomly", outcome |-> "returned",
                         user_ids |-> user_ids, treatment_ratio |-> treatment_ratio,
                         control |-> SubSeq(shuffled, 1, split_idx),
                         treatment |-> SubSeq(shuffled, split_idx + 1, Len(shuffled))]
        /\ UNCHANGED <<significance_level, experiments, assignments, results, ab_args>>
        /\ UNCHANGED <<inputVars, callerVars, funnelVars, cohortVars, featureVars, modelVars, loaderVars>>

----------------------------------------------------------------------------
(* SkipPredictor (src/skip_predictor.py) and SessionForecaster            *)
(* (src/session_forecaster.py)                                            *)

MaxTrainCalls == 2

Targets == {"SkipPredictor", "SessionForecaster"}

\* A scikit-learn estimator object (scaler, selector or model) is known by the
\* train() call that constructed it, the columns of the X it was given and
\* whether its fit has returned; None is the value before any train()
NoEstimator == [none |-> TRUE, run |-> 0, columns |-> <<>>, fitted |-> FALSE]
Estimator(run, columns, fitted) ==
    [none |-> FALSE, run |-> run, columns |-> columns, fitted |-> fitted]

\* SkipPredictor.__init__ / SessionForecaster.__init__
NewSkipPredictor ==
    [model |-> NoEstimator, scaler |-> NoEstimator, feature_names |-> <<>>,
     is_fitted |-> FALSE, _metrics |-> 0]
NewSessionForecaster(model_type) ==
    [model_type |-> model_type, model |-> NoEstimator, scaler |-> NoEstimator,
     feature_selector |-> NoEstimator, feature_names |-> <<>>,
     selected_features |-> <<>>, is_fitted |-> FALSE, _metrics |-> 0]

KnownModelTypes == {"linear", "ridge", "lasso"}

\* The statement of SkipPredictor.train at which a library call rejects the
\* data: train_test_split (too few rows, or a class with one member under
\* stratify), StandardScaler.fit_transform (a non-numeric column),
\* LogisticRegression.fit (one class in y_train), the metrics
\* (roc_auc_score on labels it does not accept); "none" when all return
SkipFailures == {"split", "scaler", "fit", "metrics", "none"}
\* the same for SessionForecaster.train; its metrics accept every y
ForecastFailures == {"split", "scaler", "selector", "fit", "none"}

\* SkipPredictor.train: the assignments made up to the statement that raises
TrainSkipPredictor(p, columns, run, fails_at) ==
    LET named == [p EXCEPT !.feature_names = columns]
        scaled == [named EXCEPT !.scaler = Estimator(run, columns, fails_at # "scaler")]
        built == [scaled EXCEPT !.model = Estimator(run, columns, fails_at # "fit")]
        fitted == [built EXCEPT !.is_fitted = TRUE]
        measured == [fitted EXCEPT !._metrics = run]
    IN  CASE fails_at = "split" -> named
          [] fails_at = "scaler" -> scaled
          [] fails_at = "fit" -> built
          [] fails_at = "metrics" -> fitted
          [] OTHER -> measured

\* SessionForecaster.train: the assignments made up to the statement that
\* raises; an unknown model_type raises after the selector is fitted
TrainSessionForecaster(p, columns, run, fails_at) ==
    LET named == [p EXCEPT !.feature_names = columns]
        scaled == [named EXCEPT !.scaler = Estimator(run, columns, fails_at # "scaler")]
        selecting == [scaled EXCEPT !.feature_selector =
                          Estimator(run, columns, fails_at # "selector")]
        selected == [selecting EXCEPT !.selected_features = columns]
        built == [selected EXCEPT !.model = Estimator(run, columns, fails_at # "fit")]
        measured == [built EXCEPT !.is_fitted = TRUE, !._metrics = run]
    IN  CASE fails_at = "split" -> named
          [] fails_at = "scaler" -> scaled
          [] fails_at = "selector" -> selecting
          [] p.model_type \notin KnownModelTypes -> selected
          [] fails_at = "fit" -> built
          [] OTHER -> measured

\* whether a train() call with this outcome of the library calls returns
TrainReturns(target, p, fails_at) ==
    /\ fails_at = "none"
    /\ target = "SessionForecaster" => p.model_type \in KnownModelTypes

Instance(target) ==
    IF target = "SkipPredictor" THEN skip_predictor ELSE session_forecaster

SetInstance(target, p) ==
    IF target = "SkipPredictor"
    THEN skip_predictor' = p /\ UNCHANGED session_forecaster
    ELSE session_forecaster' = p /\ UNCHANGED skip_predictor

train(target, columns, fails_at) ==
    /\ train_calls < MaxTrainCalls
    /\ train_calls' = train_calls + 1
    /\ SetInstance(target,
           IF target = "SkipPredictor"
           THEN TrainSkipPredictor(skip_predictor, columns, train_calls + 1, fails_at)
           ELSE TrainSessionForecaster(session_forecaster, columns, train_calls + 1, fails_at))
    /\ ml_return' = [op |-> "train", target |-> target,
                     outcome |-> IF TrainReturns(target, Instance(target), fails_at)
                                 THEN "returned" ELSE "ValueError"]
    /\ UNCHANGED saved_models
    /\ UNCHANGED <<inputVars, callerVars, funnelVars, cohortVars, featureVars, abVars, loaderVars>>

\* scaler.transform(X[self.feature_names]), the selector and the model work
\* when each is fitted, on the columns the instance names
PipelineFits(target, p) ==
    /\ p.scaler.fitted /\ p.scaler.columns = p.feature_names
    /\ p.model.fitted /\ p.model.columns = p.feature_names
    /\ target = "SessionForecaster" =>
           p.feature_selector.fitted /\ p.feature_selector.columns = p.feature_names

\* a method that starts with self._check_fitted() and then reads the
\* instance: predict, predict_proba, evaluate, get_feature_importance
Read(target, op) ==
    /\ ml_return' = [op |-> op, target |-> target,
                     outcome |-> IF ~Instance(target).is_fitted THEN "ValueError"
                                 ELSE IF PipelineFits(target, Instance(target))
                                      THEN "returned" ELSE "LibraryError"]
    /\ UNCHANGED <<skip_predictor, session_forecaster, saved_models, train_calls>>
    /\ UNCHANGED <<inputVars, callerVars, funnelVars, cohortVars, featureVars, abVars, loaderVars>>

predict(target) == Read(target, "predict")
evaluate(target) == Read(target, "evaluate")
get_feature_importance(target) == Read(target, "get_feature_importance")

\* SessionForecaster defines no predict_proba: the attribute lookup fails
predict_proba(target) ==
    IF target = "SkipPredictor"
    THEN Read(target, "predict_proba")
    ELSE /\ ml_return' = [op |-> "predict_proba", target |-> target,
                          outcome |-> "AttributeError"]
         /\ UNCHANGED <<skip_predictor, session_forecaster, saved_models, train_calls>>
         /\ UNCHANGED <<inputVars, callerVars, funnelVars, cohortVars, featureVars, abVars,
                        loaderVars>>

NoFile == [none |-> TRUE]

\* save pickles the fields of the instance
save(target) ==
    /\ IF ~Instance(target).is_fitted
       THEN /\ ml_return' = [op |-> "save", target |-> target, outcome |-> "ValueError"]
            /\ UNCHANGED saved_models
       ELSE /\ ml_return' = [op |-> "save", target |-> target, outcome |-> "returned"]
            /\ saved_models' = [saved_models EXCEPT ![target] =
                                    [none |-> FALSE, model_data |-> Instance(target)]]
    /\ UNCHANGED <<skip_predictor, session_forecaster, train_calls>>
    /\ UNCHANGED <<inputVars, callerVars, funnelVars, cohortVars, featureVars, abVars, loaderVars>>

\* load builds a new instance from the file and the caller keeps it
load(target) ==
    /\ IF saved_models[target].none
       THEN /\ ml_return' = [op |-> "load", target |-> target,
                             outcome |-> "FileNotFoundError"]
            /\ UNCHANGED <<skip_predictor, session_forecaster>>
       ELSE /\ ml_return' = [op |-> "load", target |-> target, outcome |-> "returned"]
            /\ SetInstance(target,
                   [saved_models[target].model_data EXCEPT !.is_fitted = TRUE])
    /\ UNCHANGED <<saved_models, train_calls>>
    /\ UNCHANGED <<inputVars, callerVars, funnelVars, cohortVars, featureVars, abVars, loaderVars>>

----------------------------------------------------------------------------
(* DataLoader (src/data_loader.py) *)

\* missing = set(required_columns) - set(df.columns)
MissingColumns_AllRequired(df, required_columns) == Range(required_columns)
MissingColumns(df, required_columns) == Range(required_columns) \ DOMAIN df

\* pd.to_datetime(df[col]) of a column by its content: strings that parse and
\* datetimes become datetime64, strings that do not parse raise
Unparseable == "object (not dates)"
ToDatetime(dtype) == "datetime64"

\* the loop over date_columns: the columns converted before the first column
\* that does not parse
RECURSIVE ConvertDates(_, _)
ConvertDates(df, date_columns) ==
    IF date_columns = <<>> THEN [df |-> df, raised |-> FALSE]
    ELSE LET col == Head(date_columns)
         IN  IF col \notin DOMAIN df THEN ConvertDates(df, Tail(date_columns))
             ELSE IF df[col] = Unparseable THEN [df |-> df, raised |-> TRUE]
             ELSE ConvertDates([df EXCEPT ![col] = ToDatetime(df[col])],
                               Tail(date_columns))

validate_data(required_columns, date_columns) ==
    LET missing == MissingColumns(loader_df, required_columns)
        converted == ConvertDates(loader_df, date_columns)
    IN  /\ IF missing # {}
           THEN /\ loader_return' = [op |-> "validate_data", outcome |-> "ValueError",
                                     message |-> missing,
                                     required_columns |-> required_columns]
                /\ UNCHANGED loader_df
           ELSE /\ loader_df' = converted.df
                /\ loader_return' =
                       [op |-> "validate_data",
                        outcome |-> IF converted.raised THEN "DateParseError" ELSE "returned",
                        message |-> {},
                        required_columns |-> required_columns]
        /\ UNCHANGED <<inputVars, callerVars, funnelVars, cohortVars, featureVars, abVars,
                       modelVars>>

----------------------------------------------------------------------------
(* Input tables *)

\* all tables of at most n rows drawn from the row set R, up to row order
\* (every modelled computation is a group-by aggregation over the rows)
TablesOver(R, n) ==
    LET rs == SetToSeq(R)
        Sorted(k) == {g \in [1..k -> 1..Len(rs)] : \A i \in 1..(k - 1) : g[i] <= g[i + 1]}
    IN  UNION {{[i \in 1..k |-> rs[g[i]]] : g \in Sorted(k)} : k \in 0..n}

\* users tables: at most one row per user_id
UsersTables(ids, signups) ==
    {t \in SUBSET [user_id : ids, signup_date : signups] :
        \A a, b \in t : a.user_id = b.user_id => a = b}

SessionRow(u, tr, ts, c) ==
    [user_id |-> u, track_id |-> tr, timestamp |-> ts, context |-> c]

NoTracks == {}
NoFeatures == [none |-> TRUE, rows |-> {}]

InitFunnelAnalyzer ==
    /\ funnel_stages = <<>>
    /\ funnel_data = NoDataFrame
    /\ funnel_metrics = [kind |-> "none"]
    /\ recommendations = <<>>
    /\ last_funnel_call = [op |-> "none", stages |-> <<>>]

InitCohortAnalyzer ==
    /\ retention_matrix = NoMatrix
    /\ retention_summary = [kind |-> "none"]
    /\ last_retention_call = [op |-> "none", periods |-> 0]
    /\ churn_analysis = NoChurnAnalysis

InitFeatureEngineer ==
    /\ features = NoFeatures
    /\ feature_names = <<>>
    /\ feature_outcome = "none"

ExperimentNames == {"e1", "e2"}

InitABTestFramework ==
    /\ experiments = {}
    /\ assignments = [n \in ExperimentNames |-> NoAssignments]
    /\ results = [n \in ExperimentNames |-> NoResults]
    /\ ab_return = [op |-> "none", outcome |-> "none"]

DefaultSignificanceLevel == <<1, 20>>

\* the framework is constructed with its default and not called
NoABTest ==
    /\ significance_level = DefaultSignificanceLevel
    /\ InitABTestFramework
    /\ ab_args = [op |-> "none"]

\* both models are constructed with their defaults, nothing is saved
InitModels ==
    /\ skip_predictor = NewSkipPredictor
    /\ session_forecaster = NewSessionForecaster("ridge")
    /\ saved_models = [t \in Targets |-> NoFile]
    /\ train_calls = 0
    /\ ml_return = [op |-> "none", target |-> "none", outcome |-> "none"]

\* no table is handed to the DataLoader
NoLoader ==
    /\ loader_df = <<>>
    /\ loader_return = [op |-> "none", outcome |-> "none"]

\* the caller hands over tables whose date columns are datetime64 already
DatetimeColumns ==
    /\ timestamp_dtype = "datetime64"
    /\ signup_date_dtype = "datetime64"

\* np.random.seed(42) restarts the generator on every call, so the geometric
\* draws are the same on every call: row i gets
\* ceil(log(1 - U_i) / log(1 - 0.15)) of the i-th uniform variate of
\* RandomState(42) (0.3745, 0.9507, 0.7320, 0.5987, 0.1560, 0.1560, 0.0581,
\* 0.8662, 0.6011, 0.7081), whatever the size of the draw
SeededGeometric == <<3, 19, 9, 6, 2, 2, 1, 13, 6, 8>>

\* np.random.choice draws one index per row from the same stream after the
\* geometric draws; which indices come out depends on the number of rows and
\* of playlists, so every index vector is admitted. Rows beyond the playlist
\* sessions draw nothing.
InitRandom ==
    LET n == Len(PlaylistSessions(sessions))
        nvalues == Max(1, Len(PlaylistLengths(playlist_tracks)))
    IN  /\ geometric_draws = SeededGeometric
        /\ choice_draws \in [1..MaxSessions -> 0..(Cardinality(PlaylistIds) - 1)]
        /\ \A i \in 1..MaxSessions :
               /\ i > n => choice_draws[i] = 0
               /\ choice_draws[i] < nvalues

PlaylistLens == {0, 2, MaxPlaylistLen}

FunnelTimes == {0, 204}
FunnelSignups == {0}

\* rows of the sessions tables handed to the funnel analyzer; the playlist
\* funnel reads only the context of a row, the activation funnel only its
\* user_id and timestamp
FunnelSessionRows ==
    {SessionRow(u, "t1", ts, "album") : u \in UserIds, ts \in FunnelTimes}
        \cup {SessionRow("u1", "t1", 0, "playlist")}

InitFunnel ==
    /\ users \in UsersTables(UserIds, FunnelSignups)
    /\ sessions \in TablesOver(FunnelSessionRows, MaxSessions)
    /\ tracks = NoTracks
    \* playlist ids are interchangeable: the longer playlist is called p1
    /\ playlist_tracks \in {pt \in [PlaylistIds -> PlaylistLens] :
                               pt["p2"] < pt["p1"] \/ pt["p2"] = 0}
    /\ InitRandom
    /\ InitFunnelAnalyzer
    /\ period = "monthly"
    /\ InitCohortAnalyzer
    /\ InitFeatureEngineer
    /\ DatetimeColumns
    /\ NoABTest
    /\ InitModels
    /\ NoLoader

NextFunnel ==
    \/ analyze_playlist_completion
    \/ analyze_user_activation
    \/ get_recommendations

SpecFunnel == InitFunnel /\ [][NextFunnel]_vars

\* no playlist session, so nothing is drawn
NoRandom ==
    /\ geometric_draws = SeededGeometric
    /\ choice_draws = [i \in 1..MaxSessions |-> 0]

CohortTimes == {Days(0), Days(10), Days(40), Days(100)}
CohortSignups == {Days(0), Days(40)}

InitCohort ==
    /\ users \in UsersTables(UserIds, CohortSignups)
    /\ sessions \in TablesOver(
           {SessionRow(u, "t1", ts, "album") : u \in UserIds, ts \in CohortTimes},
           MaxSessions)
    /\ tracks = NoTracks
    /\ playlist_tracks = [p \in PlaylistIds |-> 0]
    /\ NoRandom
    /\ InitFunnelAnalyzer
    /\ period \in Periods
    /\ InitCohortAnalyzer
    /\ InitFeatureEngineer
    /\ DatetimeColumns
    /\ NoABTest
    /\ InitModels
    /\ NoLoader

NextCohort ==
    \/ \E periods \in 0..MaxPeriods : calculate_retention(periods)
    \/ get_retention_summary

SpecCohort == InitCohort /\ [][NextCohort]_vars

ChurnThresholds == {1, 30, 90}

NextChurn == \E days_inactive \in ChurnThresholds : identify_churn_risk(days_inactive)

SpecChurn == InitCohort /\ [][NextChurn]_vars

TrackRows == {[track_id |-> "t1", genre |-> "pop"], [track_id |-> "t2", genre |-> "rock"]}

\* sessions of the feature engineer: track t1 on any day, track t2 on the
\* first day
FeatureSessionRows ==
    {SessionRow(u, "t1", Days(d), "album") : u \in UserIds, d \in 0..MaxDay}
        \cup {SessionRow(u, "t2", Days(0), "album") : u \in UserIds}

InitFeatures ==
    /\ users \in UsersTables(UserIds, {Days(0)})
    /\ sessions \in TablesOver(FeatureSessionRows, MaxFeatureSessions)
    /\ tracks \in SUBSET TrackRows
    /\ playlist_tracks = [p \in PlaylistIds |-> 0]
    /\ NoRandom
    /\ InitFunnelAnalyzer
    /\ period = "monthly"
    /\ InitCohortAnalyzer
    /\ InitFeatureEngineer
    /\ DatetimeColumns
    /\ NoABTest
    /\ InitModels
    /\ NoLoader

NextFeatures == create_all_features

SpecFeatures == InitFeatures /\ [][NextFeatures]_vars

\* the analyzers are constructed, not called, and get empty tables
NoTables ==
    /\ users = {}
    /\ sessions = <<>>
    /\ tracks = NoTracks
    /\ playlist_tracks = [p \in PlaylistIds |-> 0]
    /\ NoRandom
    /\ InitFunnelAnalyzer
    /\ period = "monthly"
    /\ InitCohortAnalyzer
    /\ InitFeatureEngineer
    /\ DatetimeColumns

SignificanceLevels == {<<1, 20>>, <<1, 100>>}

ControlPool == <<"c1", "c2", "c3">>
TreatmentPool == <<"t1", "t2", "t3">>
GroupSizes == 0..Min(MaxGroupSize, 3)
MetricValues == {0, 1}

\* metric tables with one row per user: the users of a pool are all present
\* or all absent
MetricTables ==
    LET size == Min(MaxGroupSize, 3)
        Rows(pool, vals) == [i \in 1..size |-> [user_id |-> pool[i], value |-> vals[i]]]
        Of(pool) == {<<>>} \cup {Rows(pool, vals) : vals \in [1..size -> MetricValues]}
    IN  {c \o t : c \in Of(ControlPool), t \in Of(TreatmentPool)}

NoArguments == [op |-> "none"]

InitExperiment ==
    /\ NoTables
    /\ InitModels
    /\ NoLoader
    /\ significance_level \in SignificanceLevels
    /\ InitABTestFramework
    /\ ab_args = NoArguments

\* experiment e1 is created and analysed; e2 is asked for and never created
NextExperiment ==
    \/ \E nc, nt \in GroupSizes :
           create_experiment("e1", SubSeq(ControlPool, 1, nc), SubSeq(TreatmentPool, 1, nt))
    \/ \E name \in ExperimentNames, metric_data \in MetricTables :
           analyze_results(name, metric_data)
    \/ \E name \in ExperimentNames : generate_report(name)

SpecExperiment == InitExperiment /\ [][NextExperiment]_vars

BaselineRates == {<<0, 1>>, <<1, 10>>, <<3, 10>>, <<1, 2>>, <<9, 10>>, <<1, 1>>}
MinimumEffects == {<<-1, 1>>, <<-1, 2>>, <<0, 1>>, <<1, 20>>, <<1, 2>>, <<1, 1>>}
TreatmentRatios == {<<0, 1>>, <<1, 5>>, <<1, 2>>, <<4, 5>>, <<1, 1>>}
AssignPool == <<"a1", "a2", "a3", "a4", "a5", "a6", "a7">>

\* the rearrangements of a list of distinct ids
Rearrangements(ids) ==
    {[i \in 1..Len(ids) |-> ids[f[i]]] :
        f \in {g \in [1..Len(ids) -> 1..Len(ids)] :
                  \A i, j \in 1..Len(ids) : g[i] = g[j] => i = j}}

\* the calls of the two functions that use no state but significance_level
SampleSizeCalls ==
    {[op |-> "calculate_sample_size", baseline_rate |-> b, mde |-> m] :
        b \in BaselineRates, m \in MinimumEffects}
AssignmentCalls ==
    UNION {{[op |-> "assign_users_randomly", user_ids |-> SubSeq(AssignPool, 1, k),
             treatment_ratio |-> r, shuffled |-> sh] :
               r \in TreatmentRatios, sh \in Rearrangements(SubSeq(AssignPool, 1, k))} :
           k \in 0..MaxAssignUsers}

InitABTools ==
    /\ NoTables
    /\ InitModels
    /\ NoLoader
    /\ significance_level \in SignificanceLevels
    /\ InitABTestFramework
    /\ ab_args \in SampleSizeCalls \cup AssignmentCalls

NextABTools ==
    \/ /\ ab_args.op = "calculate_sample_size"
       /\ calculate_sample_size(ab_args.baseline_rate, ab_args.mde)
    \/ /\ ab_args.op = "assign_users_randomly"
       /\ assign_users_randomly(ab_args.user_ids, ab_args.treatment_ratio, ab_args.shuffled)

SpecABTools == InitABTools /\ [][NextABTools]_vars

ColumnDtypes == {"object", "datetime64"}

\* small tables whose date columns are strings or datetime64
InitPurity ==
    /\ users \in UsersTables(UserIds, {Days(0)})
    /\ sessions \in TablesOver(
           {SessionRow(u, "t1", Days(d), c) : u \in UserIds, d \in {0, 40}, c \in Contexts}, 2)
    /\ tracks \in SUBSET {[track_id |-> "t1", genre |-> "pop"]}
    /\ playlist_tracks = [p \in PlaylistIds |-> 0]
    /\ NoRandom
    /\ InitFunnelAnalyzer
    /\ period = "monthly"
    /\ InitCohortAnalyzer
    /\ InitFeatureEngineer
    /\ timestamp_dtype \in ColumnDtypes
    /\ signup_date_dtype \in ColumnDtypes
    /\ NoABTest
    /\ InitModels
    /\ NoLoader

NextPurity ==
    \/ create_all_features
    \/ calculate_retention(1)
    \/ identify_churn_risk(30)
    \/ analyze_user_activation
    \/ analyze_playlist_completion

SpecPurity == InitPurity /\ [][NextPurity]_vars

ModelTypes == {"ridge", "elasticnet"}
FeatureLists == {<<"tempo">>, <<"tempo", "energy">>}

InitTraining ==
    /\ NoTables
    /\ NoABTest
    /\ NoLoader
    /\ skip_predictor = NewSkipPredictor
    /\ session_forecaster \in {NewSessionForecaster(t) : t \in ModelTypes}
    /\ saved_models = [t \in Targets |-> NoFile]
    /\ train_calls = 0
    /\ ml_return = [op |-> "none", target |-> "none", outcome |-> "none"]

NextTraining ==
    \E target \in Targets :
        \/ \E columns \in FeatureLists, fails_at \in SkipFailures \cup ForecastFailures :
               /\ fails_at \in (IF target = "SkipPredictor" THEN SkipFailures
                                ELSE ForecastFailures)
               /\ train(target, columns, fails_at)
        \/ predict(target)
        \/ predict_proba(target)
        \/ evaluate(target)
        \/ get_feature_importance(target)
        \/ save(target)
        \/ load(target)

SpecTraining == InitTraining /\ [][NextTraining]_vars

LoaderColumns == {"user_id", "signup_date", "timestamp"}
ColumnContents == {"object (dates)", Unparseable, "datetime64"}
RequiredColumnLists == {<<>>, <<"user_id">>, <<"user_id", "timestamp">>,
                        <<"user_id", "signup_date", "timestamp">>}
DateColumnLists == {<<>>, <<"timestamp">>, <<"signup_date", "timestamp">>}

InitLoader ==
    /\ NoTables
    /\ NoABTest
    /\ InitModels
    /\ loader_df \in UNION {[cols -> ColumnContents] : cols \in SUBSET LoaderColumns}
    /\ loader_return = [op |-> "none", outcome |-> "none"]

NextLoader ==
    \E required_columns \in RequiredColumnLists, date_columns \in DateColumnLists :
        validate_data(required_columns, date_columns)

SpecLoader == InitLoader /\ [][NextLoader]_vars

\* sessions with a time of day: the hours at the bucket boundaries, and two
\* sessions two hours apart on either side of midnight
HourTimes == {5, 6, 12, 18, 23, 25}

InitHours ==
    /\ users \in UsersTables(UserIds, {Days(0)})
    /\ sessions \in TablesOver(
           {SessionRow(u, "t1", ts, "album") : u \in UserIds, ts \in HourTimes},
           MaxHourSessions)
    /\ tracks = {[track_id |-> "t1", genre |-> "pop"]}
    /\ playlist_tracks = [p \in PlaylistIds |-> 0]
    /\ NoRandom
    /\ InitFunnelAnalyzer
    /\ period = "monthly"
    /\ InitCohortAnalyzer
    /\ InitFeatureEngineer
    /\ DatetimeColumns
    /\ NoABTest
    /\ InitModels
    /\ NoLoader

SpecHours == InitHours /\ [][NextFeatures]_vars

\* sessions of the activation funnel: Mondays of the ISO weeks 1 to 4 of
\* 2024, Wednesday 2025-01-01 in ISO week 1 of 2025, and a session 47 hours
\* after 2024-01-01 00:00; users sign up at that time or a day later
ActivationTimes == {Days(0), 47, Days(7), Days(14), Days(21), Days(366)}
ActivationSignups == {Days(0), Days(1)}

InitActivation ==
    /\ users \in UsersTables(UserIds, ActivationSignups)
    /\ sessions \in TablesOver(
           {SessionRow(u, "t1", ts, "album") : u \in UserIds, ts \in ActivationTimes},
           MaxActivationSessions)
    /\ tracks = NoTracks
    /\ playlist_tracks = [p \in PlaylistIds |-> 0]
    /\ NoRandom
    /\ InitFunnelAnalyzer
    /\ period = "monthly"
    /\ InitCohortAnalyzer
    /\ InitFeatureEngineer
    /\ DatetimeColumns
    /\ NoABTest
    /\ InitModels
    /\ NoLoader

NextActivation == analyze_user_activation

SpecActivation == InitActivation /\ [][NextActivation]_vars

\* funnels read by get_recommendations: sessions on the Mondays of four
\* consecutive weeks, which keep a user through every activation stage, and
\* playlist sessions on a two-track playlist, where nobody completes track 3
RecommendTimes == {Days(0), Days(7), Days(14), Days(21)}

InitRecommendations ==
    /\ users \in UsersTables(UserIds, FunnelSignups)
    /\ sessions \in TablesOver(
           {SessionRow(u, "t1", ts, "album") : u \in UserIds, ts \in RecommendTimes}
               \cup {SessionRow("u1", "t1", 0, "playlist")},
           MaxRecommendSessions)
    /\ tracks = NoTracks
    /\ playlist_tracks = [p \in PlaylistIds |-> IF p = "p1" THEN 2 ELSE 0]
    /\ geometric_draws = SeededGeometric
    \* one playlist to choose from
    /\ choice_draws = [i \in 1..MaxRecommendSessions |-> 0]
    /\ InitFunnelAnalyzer
    /\ period = "monthly"
    /\ InitCohortAnalyzer
    /\ InitFeatureEngineer
    /\ DatetimeColumns
    /\ NoABTest
    /\ InitModels
    /\ NoLoader

SpecRecommendations == InitRecommendations /\ [][NextFunnel]_vars

----------------------------------------------------------------------------
(* Claims about the FunnelAnalyzer *)

StageCounts(fs) == [i \in 1..Len(fs) |-> [name |-> fs[i].name, users |-> fs[i].users]]

\* C2: in the funnel of either analyze_* method the user counts never
\* increase along the stage sequence.
C2_UserCountsNonIncreasing ==
    \A i \in 2..Len(funnel_stages) :
        funnel_stages[i].users <= funnel_stages[i - 1].users

\* C5: after any compute call the analyzer's cache describes the most recent
\* compute call: funnel_stages and funnel_data hold its stages, and
\* retention_matrix is the matrix of the last calculate_retention call.
C5_CacheIsLastCall ==
    /\ last_funnel_call.op # "none" =>
           /\ StageCounts(funnel_stages) = last_funnel_call.stages
           /\ funnel_data.rows = FunnelDataFrame(funnel_stages).rows
    /\ last_retention_call.op # "none" =>
           retention_matrix =
               RetentionMatrix(period, users, sessions, last_retention_call.periods)

\* C7, as stated: the first stage of every funnel has conversion_rate
\* exactly 1.0 and drop_off_rate exactly 0.
C7_FirstStageConvertsFully ==
    funnel_stages # <<>> =>
        /\ funnel_stages[1].conversion_rate = One
        /\ funnel_stages[1].drop_off_rate = Zero

\* C7, amended: the first stage has drop_off_rate exactly 0; its
\* conversion_rate is exactly 1.0 when the stage has at least one user and
\* exactly 0 when it has none (an empty users table).
C7_FirstStage ==
    funnel_stages # <<>> =>
        /\ funnel_stages[1].drop_off_rate = Zero
        /\ funnel_stages[1].users > 0 => funnel_stages[1].conversion_rate = One
        /\ funnel_stages[1].users = 0 => funnel_stages[1].conversion_rate = Zero

C7_Witness ==
    /\ last_funnel_call.op = "analyze_user_activation"
    /\ funnel_stages # <<>>
    /\ funnel_stages[1].users = 1
    /\ funnel_stages[2].users = 2

\* stage i (i >= 2) has the largest drop_off_rate of stages 2..n and is the
\* earliest such stage
EarliestBiggestDrop(fs, i) ==
    /\ i \in 2..Len(fs)
    /\ \A j \in 2..Len(fs) : FracGE(fs[i].drop_off_rate, fs[j].drop_off_rate)
    /\ \A j \in 2..(i - 1) : FracGT(fs[i].drop_off_rate, fs[j].drop_off_rate)

\* C8: biggest_drop_off_stage is the name of the earliest stage after the
\* first with the largest drop_off_rate, always a stage of the funnel (the
\* first seeded draw completes 3 tracks, so some later stage loses a session
\* and the "unknown" default of _find_biggest_drop_off is never returned).
C8_BiggestDropIsAStage ==
    funnel_metrics.kind = "playlist" =>
        \E i \in 2..Len(funnel_stages) :
            /\ EarliestBiggestDrop(funnel_stages, i)
            /\ funnel_metrics.biggest_drop_off_stage = funnel_stages[i].name

\* two stages tie for the largest (positive) drop-off
C8_Witness ==
    /\ funnel_metrics.kind = "playlist"
    /\ \E i, j \in 2..Len(funnel_stages) :
           /\ i < j
           /\ EarliestBiggestDrop(funnel_stages, i)
           /\ funnel_stages[j].drop_off_rate = funnel_stages[i].drop_off_rate
           /\ FracGT(funnel_stages[i].drop_off_rate, Zero)

KindCount(recs, kind) == Cardinality({k \in 1..Len(recs) : recs[k].kind = kind})

\* the stages (any position) whose drop_off_rate exceeds 0.20
Flagged(fs) ==
    {i \in 1..Len(fs) : 5 * fs[i].drop_off_rate[1] > fs[i].drop_off_rate[2]}

\* recs holds one high_drop_off flag per flagged stage, in stage order
FlagsMatch(recs, fs) ==
    /\ KindCount(recs, "high_drop_off") = Cardinality(Flagged(fs))
    /\ \A i \in Flagged(fs) :
           \E k \in 1..Len(recs) :
               /\ recs[k] = Message("high_drop_off", fs[i].name, fs[i].drop_off_rate)
               /\ k = Cardinality({j \in Flagged(fs) : j <= i})

Tracks35Drop(fs) ==
    \E i, j \in 1..Len(fs) :
        /\ fs[i].name = "track_3_complete"
        /\ fs[j].name = "track_5_complete"
        /\ fs[i].users > 0
        /\ 20 * (fs[i].users - fs[j].users) > 3 * fs[i].users

----------------------------------------------------------------------------
(* Claims about the CohortAnalyzer *)

\* C3: the column labels of the matrix calculate_retention(periods = h)
\* returns all lie in 0..h-1; activity outside that range is dropped.
C3_ColumnsWithinHorizon ==
    last_retention_call.op = "calculate_retention" =>
        /\ \A col \in Range(retention_matrix.columns) :
               col \in 0..(last_retention_call.periods - 1)
        /\ \A c \in retention_matrix.cells :
               c.period_number \in 0..(last_retention_call.periods - 1)

\* C4: every non-missing entry of the retention matrix lies in [0, 100]
\* (users tables have unique user_ids).
C4_EntriesWithin0And100 ==
    \A c \in retention_matrix.cells :
        /\ c.value[1] >= 0
        /\ c.value[1] <= 100 * c.value[2]

\* a cohort of two users, one of them active in some period, both in another
C4_Witness ==
    /\ \E c \in retention_matrix.cells : c.value = <<50, 1>>
    /\ \E c \in retention_matrix.cells : c.value = <<100, 1>>

\* C6: get_retention_summary raises the usage error exactly when no
\* calculate_retention call has completed on the instance.
C6_SummaryRaisesIffNeverComputed ==
    [][get_retention_summary =>
        (retention_summary'.kind = "ValueError" <=> last_retention_call.op = "none")]_vars

\* a summary returned for a computed matrix that has no column at all
C6_Witness ==
    /\ retention_summary.kind = "summary"
    /\ last_retention_call.op = "calculate_retention"
    /\ retention_matrix.columns = <<>>

----------------------------------------------------------------------------
(* Claims about the FeatureEngineer *)

\* C1: create_all_features returns exactly one row per user of the users
\* table.
C1_OneRowPerUser ==
    ~features.none =>
        /\ Cardinality(features.rows) = Cardinality(users)
        /\ {r.user_id : r \in features.rows} = {x.user_id : x \in users}

\* the days on which user u has a session
DaysOf(u) == {DayOf(sessions[i].timestamp) :
                 i \in {j \in 1..Len(sessions) : sessions[j].user_id = u}}

\* k consecutive days end at day `last` of D and the day before them is not in D
IsRunEndingAt(D, last, k) ==
    /\ \A j \in 0..(k - 1) : (last - j) \in D
    /\ (last - k) \notin D

\* C10: for every user with a session, current_streak is the length of the
\* maximal run of consecutive calendar days ending at the latest active date.
C10_CurrentStreakIsLastRun ==
    \A r \in features.rows :
        IsRunEndingAt(DaysOf(r.user_id), SetMax(DaysOf(r.user_id)), r.streak.current_streak)

\* a user whose latest run of three days follows an earlier, separate run
C10_Witness ==
    \E r \in features.rows :
        /\ r.streak.current_streak = 3
        /\ r.streak.streak_count = 2


\* C11: for every user the streak lengths add up to the distinct active
\* dates (streak_count * avg_streak = active_days), and
\* max_streak >= current_streak >= 1 whenever active_days >= 1.
C11_StreaksPartitionActiveDays ==
    \A r \in features.rows :
        /\ r.streak.streak_count * r.streak.avg_streak[1]
               = r.streak.active_days * r.streak.avg_streak[2]
        /\ r.streak.active_days = Cardinality(DaysOf(r.user_id))
        /\ r.streak.active_days >= 1 =>
               /\ r.streak.max_streak >= r.streak.current_streak
               /\ r.streak.current_streak >= 1

\* a user whose latest run (one day) is shorter than an earlier run of three
C11_Witness ==
    \E r \in features.rows :
        /\ r.streak.active_days = 4
        /\ r.streak.max_streak = 3
        /\ r.streak.current_streak = 1


----------------------------------------------------------------------------
(* Claims about the ABTestFramework *)

\* the results analyze_results has stored
StoredResults == {results[n] : n \in {m \in ExperimentNames : ~results[m].none}}

\* C12: for every result of analyze_results, is_significant is true if and
\* only if p_value < significance_level (strictly).
C12_SignificantIffBelowLevel ==
    \A r \in StoredResults :
        r.is_significant <=>
            (~r.p_value.nan
             /\ r.p_value.v[1] * significance_level[2]
                    < significance_level[1] * r.p_value.v[2])

\* a result whose p_value equals the significance level, and is not significant
C12_Witness ==
    \E r \in StoredResults :
        /\ r.p_value = F(significance_level)
        /\ ~r.is_significant
        /\ r.control_n >= 2 /\ r.treatment_n >= 2

\* z * z for z = norm.ppf(1 - alpha/2)
ZSquared(alpha) == FracMul(NormPpfUpper(alpha), NormPpfUpper(alpha))

\* center + sign * z * sqrt(radius_sq) <= x, for a bound that is not NaN
BoundLE(b, x, alpha) ==
    LET e == FracSub(x, b.center)
        far == FracGE(FracMul(e, e), FracMul(ZSquared(alpha), b.radius_sq))
        near == FracLE(FracMul(e, e), FracMul(ZSquared(alpha), b.radius_sq))
    IN  IF b.sign = 1 THEN e[1] >= 0 /\ far ELSE e[1] >= 0 \/ near

\* center + sign * z * sqrt(radius_sq) >= x, for a bound that is not NaN
BoundGE(b, x, alpha) ==
    LET e == FracSub(x, b.center)
        far == FracGE(FracMul(e, e), FracMul(ZSquared(alpha), b.radius_sq))
        near == FracLE(FracMul(e, e), FracMul(ZSquared(alpha), b.radius_sq))
    IN  IF b.sign = 1 THEN e[1] <= 0 \/ near ELSE e[1] <= 0 /\ far

\* C13: for every result of analyze_results, p_value lies in [0, 1] and
\* confidence_interval[0] <= absolute_effect <= confidence_interval[1].
C13_PValueAndIntervalDefined ==
    \A r \in StoredResults :
        /\ ~r.p_value.nan
        /\ FracGE(r.p_value.v, Zero) /\ FracLE(r.p_value.v, One)
        /\ ~r.absolute_effect.nan
        /\ ~r.confidence_interval[1].nan /\ ~r.confidence_interval[2].nan
        /\ BoundLE(r.confidence_interval[1], r.absolute_effect.v, significance_level)
        /\ BoundGE(r.confidence_interval[2], r.absolute_effect.v, significance_level)

\* C14: every division of analyze_results has a fallback: relative_effect is
\* 0 when control_mean is 0, effect_size is 0 when the pooled standard
\* deviation is 0, and no result holds an undefined value, also for an empty
\* control or treatment group.
C14_DivisionsFallBack ==
    \A r \in StoredResults :
        /\ ~r.relative_effect.nan
        /\ ~r.effect_size.nan
        /\ r.control_mean = F(Zero) => r.relative_effect = F(Zero)
        /\ (r.control_std_sq = F(Zero) /\ r.treatment_std_sq = F(Zero)) =>
               r.effect_size.num = Zero


\* variance * (z_alpha + z_beta)^2 / effect^2 for the rates of a call, with
\* effect = |baseline_rate * mde| # 0
RequiredSample(baseline_rate, mde, alpha) ==
    LET effect == FracMul(baseline_rate, mde)
        pooled_rate == FracAdd(baseline_rate, FracMul(effect, <<1, 2>>))
        variance == FracMul(<<2, 1>>, FracMul(pooled_rate, FracSub(One, pooled_rate)))
        z_sum == FracAdd(NormPpfUpper(alpha), NormPpfPower)
    IN  FracDiv(FracMul(variance, FracMul(z_sum, z_sum)), FracMul(effect, effect))

\* C15: calculate_sample_size returns exactly 10000 when the absolute effect
\* |baseline_rate * mde| is zero, and otherwise a positive integer, the
\* ceiling (least integer not below) of variance * (z_alpha + z_beta)^2 / effect^2.
C15_SampleSizeIsPositiveCeiling ==
    ab_return.op = "calculate_sample_size" =>
        IF FracMul(ab_return.baseline_rate, ab_return.mde)[1] = 0
        THEN ab_return.n = 10000
        ELSE LET q == RequiredSample(ab_return.baseline_rate, ab_return.mde, significance_level)
             IN  /\ ab_return.n >= 1
                 /\ ab_return.n * q[2] >= q[1]
                 /\ (ab_return.n - 1) * q[2] < q[1]


----------------------------------------------------------------------------
(* Claims about churn risk, the feature table and the callers' tables *)

\* C16: identify_churn_risk returns one row per input user; churn_risk is
\* true exactly when the user has no session at all or the whole days between
\* the latest session of the dataset and the user's last session are at least
\* days_inactive; users without a session get days_inactive 999 and
\* churn_risk true.
C16_ChurnRiskPerUser ==
    ~churn_analysis.none =>
        /\ \A u \in users :
               Cardinality({r \in churn_analysis.rows : r.user_id = u.user_id}) = 1
        /\ \A r \in churn_analysis.rows : \E u \in users : u.user_id = r.user_id
        /\ \A r \in churn_analysis.rows :
               LET all == 1..Len(sessions)
                   mine == {i \in all : sessions[i].user_id = r.user_id}
               IN  IF mine = {}
                   THEN r.days_inactive = 999 /\ r.churn_risk = TRUE
                   ELSE \E latest \in all, last \in mine :
                            /\ \A i \in all : sessions[i].timestamp <= sessions[latest].timestamp
                            /\ \A i \in mine : sessions[i].timestamp <= sessions[last].timestamp
                            /\ r.churn_risk <=>
                                   (sessions[latest].timestamp - sessions[last].timestamp) \div 24
                                       >= churn_analysis.days_inactive

\* a user inactive for exactly the threshold of 30 days is flagged, next to
\* the user of the latest session, who is not
C16_Witness ==
    /\ ~churn_analysis.none
    /\ churn_analysis.days_inactive = 30
    /\ \E r \in churn_analysis.rows :
           r.has_session /\ r.days_inactive = 30 /\ r.churn_risk = TRUE
    /\ \E r \in churn_analysis.rows :
           r.has_session /\ r.days_inactive = 0 /\ r.churn_risk = FALSE


\* C17: create_all_features raises no exception, for every input, and the
\* table it returns has no NaN in a numeric column.
C17_NoNaNAndNoException ==
    /\ feature_outcome # "KeyError"
    /\ ~features.none => \A r \in features.rows : ~r.genre_count.nan


\* C18: the compute operations create_all_features, calculate_retention,
\* identify_churn_risk, analyze_user_activation and
\* analyze_playlist_completion leave the caller's sessions, users and tracks
\* tables unchanged: no row changes and no column is converted in place.
C18_CallerTablesUnchanged ==
    [][/\ users' = users
       /\ sessions' = sessions
       /\ tracks' = tracks
       /\ timestamp_dtype' = timestamp_dtype
       /\ signup_date_dtype' = signup_date_dtype]_vars


----------------------------------------------------------------------------
(* Claims about the assignment and the order of the experiment operations *)

\* C19: assign_users_randomly partitions its input: control and treatment
\* are disjoint, together hold every input id exactly once, and
\* len(control) = floor(len(user_ids) * (1 - treatment_ratio)).
C19_AssignmentPartitions ==
    ab_return.op = "assign_users_randomly" =>
        LET n == Len(ab_return.user_ids)
            ratio == ab_return.treatment_ratio
        IN  /\ Range(ab_return.control) \cap Range(ab_return.treatment) = {}
            /\ Range(ab_return.control) \cup Range(ab_return.treatment)
                   = Range(ab_return.user_ids)
            /\ Len(ab_return.control) + Len(ab_return.treatment) = n
            /\ Len(ab_return.control) = (n * (ratio[2] - ratio[1])) \div ratio[2]


\* C20: the experiment operations follow the order create_experiment ->
\* analyze_results -> generate_report.  A create_experiment(name, C, T) step
\* registers name in experiments and in assignments, with len(C) + len(T)
\* assignment rows; an analyze_results(name) step raises exactly when name was
\* not created before, and results[name] is written by no other step; a
\* generate_report(name) step raises exactly when no analyze_results(name) has
\* completed, and otherwise returns a report with the experiment name, both
\* group sizes and means, the effect, the confidence interval, the p-value
\* and the significance verdict of that result.
C20_ExperimentOrder ==
    [][/\ ab_return'.op = "create_experiment" =>
              /\ ab_return'.name \in experiments'
              /\ ~assignments'[ab_return'.name].none
              /\ Len(assignments'[ab_return'.name].rows)
                     = Len(ab_return'.control_users) + Len(ab_return'.treatment_users)
       /\ ab_return'.op = "analyze_results" =>
              /\ ab_return'.outcome = "KeyError" <=> ab_return'.name \notin experiments
              /\ ab_return'.outcome = "returned" => ~results'[ab_return'.name].none
       /\ \A n \in ExperimentNames :
              results'[n] # results[n] =>
                  /\ ab_return'.op = "analyze_results"
                  /\ ab_return'.name = n
                  /\ ab_return'.outcome = "returned"
       /\ ab_return'.op = "generate_report" =>
              LET r == results[ab_return'.name]
              IN  /\ ab_return'.outcome = "KeyError" <=> r.none
                  /\ ab_return'.outcome = "returned" =>
                         /\ ab_return'.report.name = ab_return'.name
                         /\ ab_return'.report.control_n = r.control_n
                         /\ ab_return'.report.treatment_n = r.treatment_n
                         /\ ab_return'.report.control_mean = r.control_mean
                         /\ ab_return'.report.treatment_mean = r.treatment_mean
                         /\ ab_return'.report.absolute_effect = r.absolute_effect
                         /\ ab_return'.report.relative_effect = r.relative_effect
                         /\ ab_return'.report.confidence_interval = r.confidence_interval
                         /\ ab_return'.report.p_value = r.p_value
                         /\ ab_return'.report.significant = "YES" <=> r.is_significant
                         /\ ab_return'.report.significant \in {"YES", "NO"}]_vars

\* a report of a significant result over two users per group
C20_Witness ==
    /\ ab_return.op = "generate_report"
    /\ ab_return.outcome = "returned"
    /\ ab_return.name \in experiments
    /\ Len(assignments[ab_return.name].rows) = 4
    /\ ab_return.report.control_n = 2
    /\ ab_return.report.treatment_n = 2
    /\ ab_return.report.significant = "YES"


----------------------------------------------------------------------------
(* Claims about the models and the data loader *)

\* the instance of a class after the step
InstanceAfter(target) ==
    IF target = "SkipPredictor" THEN skip_predictor' ELSE session_forecaster'

\* C21: for SkipPredictor and SessionForecaster, is_fitted is false at
\* construction and becomes true only through a completed train() or load();
\* while is_fitted is false, predict, predict_proba, evaluate,
\* get_feature_importance and save raise ValueError and leave the instance
\* unchanged.
C21_FittedOnlyByTrainOrLoad ==
    /\ ~skip_predictor.is_fitted /\ ~session_forecaster.is_fitted
    /\ [][\A target \in Targets :
              /\ (~Instance(target).is_fitted /\ InstanceAfter(target).is_fitted) =>
                     /\ ml_return'.target = target
                     /\ ml_return'.op \in {"train", "load"}
                     /\ ml_return'.outcome = "returned"
              /\ (/\ ~Instance(target).is_fitted
                  /\ ml_return'.target = target
                  /\ ml_return'.op \in {"predict", "predict_proba", "evaluate",
                                        "get_feature_importance", "save"}) =>
                     /\ ml_return'.outcome = "ValueError"
                     /\ InstanceAfter(target) = Instance(target)]_vars


\* C30: train() is atomic: when a train() call raises on an instance that
\* was fitted before the call, feature_names, scaler, feature_selector and
\* model keep the values they had before the call.
C30_TrainIsAtomic ==
    [][\A target \in Targets :
           (/\ Instance(target).is_fitted
            /\ train_calls' = train_calls + 1
            /\ ml_return'.op = "train"
            /\ ml_return'.target = target
            /\ ml_return'.outcome # "returned") =>
               /\ InstanceAfter(target).feature_names = Instance(target).feature_names
               /\ InstanceAfter(target).scaler = Instance(target).scaler
               /\ InstanceAfter(target).model = Instance(target).model
               /\ target = "SessionForecaster" =>
                      InstanceAfter(target).feature_selector
                          = Instance(target).feature_selector]_vars


----------------------------------------------------------------------------
(* Claims about the genre, temporal and engagement features *)

\* the genres user u played, as far as tracks names them
GenresPlayed(u) ==
    {t.genre : t \in {x \in tracks : \E i \in 1..Len(sessions) :
                          sessions[i].user_id = u /\ sessions[i].track_id = x.track_id}}

\* C24: for every user row output by create_all_features, genre_entropy is
\* 0 when the user played a single genre, genre_concentration lies in (0, 1],
\* and genre_concentration is 1 exactly when top_genre_ratio is 1.
C24_GenreConcentration ==
    ~features.none =>
        \A r \in features.rows :
            /\ ~r.genre.nan
            /\ Cardinality(GenresPlayed(r.user_id)) = 1 => ~r.genre.entropy_positive
            /\ r.genre.genre_concentration[1] > 0
            /\ r.genre.genre_concentration[1] <= r.genre.genre_concentration[2]
            /\ r.genre.genre_concentration = One <=> r.genre.top_genre_ratio = One


\* the bucket of an hour with half-open boundaries
HalfOpenBucket(hour) ==
    IF hour < 6 THEN "night"
    ELSE IF hour < 12 THEN "morning"
    ELSE IF hour < 18 THEN "afternoon"
    ELSE "evening"

\* C23: a session at hour h is counted in exactly one bucket with half-open
\* boundaries (night h < 6, morning 6 <= h < 12, afternoon 12 <= h < 18,
\* evening 18 <= h < 24), and each *_ratio is that bucket's share of the
\* user's sessions.
C23_HalfOpenTimeBuckets ==
    ~features.none =>
        \A r \in features.rows : \A b \in TimeBuckets :
            LET mine == {i \in 1..Len(sessions) : sessions[i].user_id = r.user_id}
                inside == {i \in mine : HalfOpenBucket(sessions[i].timestamp % 24) = b}
            IN  r.temporal[b][1] * Cardinality(mine) = Cardinality(inside) * r.temporal[b][2]

\* C25: the listening span of a user is the inclusive count of calendar days
\* from the date of the first session to the date of the last session, the
\* span of active_days_ratio, and avg_daily_sessions is total_events / span
\* clipped to [0, 100].
C25_ListeningSpan ==
    ~features.none =>
        \A r \in features.rows :
            LET mine == {i \in 1..Len(sessions) : sessions[i].user_id = r.user_id}
                days == {sessions[i].timestamp \div 24 : i \in mine}
                span == SetMax(days) - SetMin(days) + 1
            IN  /\ r.engagement.listening_span_days = span
                /\ r.streak.active_days * r.streak.active_days_ratio[2]
                       = span * r.streak.active_days_ratio[1]
                /\ r.engagement.avg_daily_sessions[1] * span
                       = Cardinality(mine) * r.engagement.avg_daily_sessions[2]


----------------------------------------------------------------------------
(* Claims about the stages of the activation funnel *)

\* the users counted by the stage of that name of the stored funnel
StageUsers(name) ==
    LET i == CHOOSE j \in 1..Len(funnel_stages) : funnel_stages[j].name = name
    IN  funnel_stages[i].users

ActivationFunnelStored ==
    /\ last_funnel_call.op = "analyze_user_activation"
    /\ Len(funnel_stages) > 0

\* the calendar weeks (Monday to Sunday; 2024-01-01 is a Monday) with a
\* session of user u
CalendarWeeks(u) ==
    {(sessions[i].timestamp \div 24) \div 7 :
        i \in {j \in 1..Len(sessions) : sessions[j].user_id = u}}

\* C26: the stage weekly_active counts exactly the users who had sessions
\* in at least 4 distinct calendar weeks, also for histories that span more
\* than one year.
C26_WeeklyActiveCountsWeeks ==
    ActivationFunnelStored =>
        StageUsers("weekly_active")
            = Cardinality({u \in UserIds : Cardinality(CalendarWeeks(u)) >= 4})

\* C27: the stage activated_day_1 counts exactly the users of the users
\* table whose first session occurred within 1 day (24 hours) after their
\* signup; users with no session are not counted.
C27_ActivatedWithinOneDay ==
    ActivationFunnelStored =>
        StageUsers("activated_day_1")
            = Cardinality({r \in users :
                  \E i \in 1..Len(sessions) :
                      /\ sessions[i].user_id = r.user_id
                      /\ \A j \in 1..Len(sessions) :
                             sessions[j].user_id = r.user_id =>
                                 sessions[i].timestamp <= sessions[j].timestamp
                      /\ sessions[i].timestamp - r.signup_date >= 0
                      /\ sessions[i].timestamp - r.signup_date <= 24})

\* C28: every get_recommendations call returns a non-empty list, whatever
\* funnel the preceding analyze call stored, including a playlist funnel
\* whose track_3_complete stage has zero users (the numpy division 0/0 is
\* nan there, which compares False with 0.15 and raises nothing).
C28_RecommendationsNeverEmpty ==
    [][get_recommendations => Len(recommendations') >= 1]_vars

\* a list was returned for a stored playlist funnel with no track_3 user
C28_Witness ==
    /\ ~funnel_data.none
    /\ last_funnel_call.op = "analyze_playlist_completion"
    /\ \E i \in 1..Len(funnel_stages) :
           /\ funnel_stages[i].name = "track_3_complete"
           /\ funnel_stages[i].users = 0
    /\ Len(recommendations) >= 1

\* the single healthy message was returned for a stored funnel
C28_HealthyReturned ==
    /\ ~funnel_data.none
    /\ recommendations = <<Message("healthy", "", Zero)>>

\* r is what analyze_results stores for some metric table when it reads the
\* assignments stored now under name
ComputedFromStored(name, r) ==
    \E metric_data \in MetricTables :
        \E p_value \in TTestPValues(metric_data, assignments[name].rows) :
            r = ExperimentResults(metric_data, assignments[name].rows,
                                  significance_level, p_value)

\* C29: a stored results[name] was computed from the assignments stored now
\* in assignments[name], and a report generate_report(name) returns renders
\* such a result; creating an experiment again under the same name leaves no
\* result of the replaced assignments behind.
C29_ResultsMatchAssignments ==
    /\ \A name \in ExperimentNames :
           ~results[name].none => ComputedFromStored(name, results[name])
    /\ (ab_return.op = "generate_report" /\ ab_return.outcome = "returned") =>
           \E metric_data \in MetricTables :
               \E p_value \in TTestPValues(metric_data, assignments[ab_return.name].rows) :
                   ab_return.report =
                       Report(ab_return.name,
                              ExperimentResults(metric_data,
                                                assignments[ab_return.name].rows,
                                                significance_level, p_value))

====
